---- MODULE Spec2Model ----
(***************************************************************************)
(* Model of server/qloo.py: the query classifier, the entity and attribute *)
(* extractor, the parameter builder and the MCP tools that call the Qloo   *)
(* insights API.  Query texts are TLA+ strings; keyword tests are real     *)
(* substring searches and the regular expressions are modelled by the      *)
(* matches they accept.                                                    *)
(***************************************************************************)
EXTENDS Integers, Sequences, FiniteSets, TLC

(***************************************************************************)
(* Text primitives (Python str / re semantics)                             *)
(***************************************************************************)

\* Python `k in s` for strings: k occurs as a contiguous substring of s.
Contains(s, k) ==
    \E i \in 1..(Len(s) - Len(k) + 1) : SubSeq(s, i, i + Len(k) - 1) = k

\* Python `any(word in s for word in words)`.
AnyIn(s, words) == \E w \in words : Contains(s, w)

\* k occurs in s starting exactly at position i.
At(s, i, k) == i >= 1 /\ i + Len(k) - 1 <= Len(s) /\ SubSeq(s, i, i + Len(k) - 1) = k

Char(s, i) == SubSeq(s, i, i)

UpperAlpha == "ABCDEFGHIJKLMNOPQRSTUVWXYZ"
LowerAlpha == "abcdefghijklmnopqrstuvwxyz"
Digits == {"0", "1", "2", "3", "4", "5", "6", "7", "8", "9"}
WhiteSpace == {" ", "\t", "\n", "\r"}

IsUpper(c) == \E i \in 1..26 : Char(UpperAlpha, i) = c
IsLower(c) == \E i \in 1..26 : Char(LowerAlpha, i) = c
IsAlpha(c) == IsUpper(c) \/ IsLower(c)
IsDigit(c) == c \in Digits
IsSpace(c) == c \in WhiteSpace

\* str.lower() on one character.
LowerChar(c) ==
    IF IsUpper(c)
    THEN Char(LowerAlpha, CHOOSE i \in 1..26 : Char(UpperAlpha, i) = c)
    ELSE c

\* str.lower().
RECURSIVE Lower(_)
Lower(s) == IF Len(s) = 0 THEN "" ELSE LowerChar(Char(s, 1)) \o Lower(Tail(s))

\* str.strip(): drop leading and trailing whitespace.
RECURSIVE LStrip(_)
LStrip(s) == IF Len(s) > 0 /\ IsSpace(Char(s, 1)) THEN LStrip(Tail(s)) ELSE s
RECURSIVE RStrip(_)
RStrip(s) ==
    IF Len(s) > 0 /\ IsSpace(Char(s, Len(s))) THEN RStrip(SubSeq(s, 1, Len(s) - 1)) ELSE s
Strip(s) == RStrip(LStrip(s))

\* ",".join(list).
RECURSIVE JoinComma(_)
JoinComma(l) ==
    IF Len(l) = 0 THEN ""
    ELSE IF Len(l) = 1 THEN l[1]
    ELSE l[1] \o "," \o JoinComma(Tail(l))

\* Every character of s[i..j] satisfies the class test.
AllSpace(s, i, j) == i >= 1 /\ j <= Len(s) /\ \A x \in i..j : IsSpace(Char(s, x))
AllDigit(s, i, j) == i >= 1 /\ j <= Len(s) /\ \A x \in i..j : IsDigit(Char(s, x))
\* The character class [A-Za-z\s,].
AllNameChar(s, i, j) ==
    /\ i >= 1 /\ j <= Len(s)
    /\ \A x \in i..j : IsAlpha(Char(s, x)) \/ IsSpace(Char(s, x)) \/ Char(s, x) = ","

\* re.search(r'a\s+b') (min = 1) or re.search(r'a\s*b') (min = 0): a, a run
\* of at least min whitespace characters, then b.
ContainsGap(s, a, b, min) ==
    \E i \in 1..Len(s) :
        /\ At(s, i, a)
        /\ \E n \in min..Len(s) :
               /\ AllSpace(s, i + Len(a), i + Len(a) + n - 1)
               /\ At(s, i + Len(a) + n, b)

\* re.search(r'(19|20)\d{2}'): the positions where a match starts.
YearAt(s, i) ==
    /\ (At(s, i, "19") \/ At(s, i, "20"))
    /\ i + 3 <= Len(s)
    /\ AllDigit(s, i + 2, i + 3)
HasYear(s) == \E i \in 1..Len(s) : YearAt(s, i)
\* match.group() of the leftmost match.
FirstYear(s) ==
    LET i == CHOOSE x \in 1..Len(s) : YearAt(s, x) /\ \A y \in 1..(x - 1) : ~YearAt(s, y)
    IN SubSeq(s, i, i + 3)

(***************************************************************************)
(* classify_user_query                                                     *)
(***************************************************************************)

RECOMMENDATION_INSIGHTS == "recommendation_insights"
DEMOGRAPHIC_INSIGHTS == "demographic_insights"
HEATMAPS == "heatmaps"
LOCATION_BASED_INSIGHTS == "location_based_insights"
TASTE_ANALYSIS == "taste_analysis"
QlooUseCase ==
    {RECOMMENDATION_INSIGHTS, DEMOGRAPHIC_INSIGHTS, HEATMAPS,
     LOCATION_BASED_INSIGHTS, TASTE_ANALYSIS}

\* One attempt of r'kw\s+([A-Za-z\s,]+?)(?:\s|$|stop1|stop2...)' at start i
\* with a whitespace run of n characters and a capture of m characters.
NameEnd(s, stops, e) ==
    \/ e = Len(s) + 1
    \/ (e <= Len(s) /\ IsSpace(Char(s, e)))
    \/ \E w \in stops : At(s, e, w)
NameMatch(s, kw, stops, i, n, m) ==
    /\ At(s, i, kw)
    /\ n >= 1 /\ m >= 1
    /\ i + Len(kw) - 1 + n + m <= Len(s)
    /\ AllSpace(s, i + Len(kw), i + Len(kw) - 1 + n)
    /\ AllNameChar(s, i + Len(kw) + n, i + Len(kw) - 1 + n + m)
    /\ NameEnd(s, stops, i + Len(kw) + n + m)
NameMatchAt(s, kw, stops, i) ==
    /\ At(s, i, kw)
    /\ \E n \in 1..Len(s) :
           /\ AllSpace(s, i + Len(kw), i + Len(kw) - 1 + n)
           /\ \E m \in 1..Len(s) : NameMatch(s, kw, stops, i, n, m)
\* re.search(...) is not None
NameSearch(s, kw, stops) == \E i \in 1..Len(s) : NameMatchAt(s, kw, stops, i)
\* group(1) of the match re.search returns: leftmost start, greedy \s+,
\* lazy capture.
NameGroup(s, kw, stops) ==
    LET capture(i, n, m) == SubSeq(s, i + Len(kw) + n, i + Len(kw) - 1 + n + m)
        lazy(i, n) ==
            capture(i, n, CHOOSE x \in 1..Len(s) :
                              NameMatch(s, kw, stops, i, n, x)
                              /\ \A y \in 1..(x - 1) : ~NameMatch(s, kw, stops, i, n, y))
        greedy(i) ==
            lazy(i, CHOOSE x \in 1..Len(s) :
                        /\ AllSpace(s, i + Len(kw), i + Len(kw) - 1 + x)
                        /\ \E m \in 1..Len(s) : NameMatch(s, kw, stops, i, x, m)
                        /\ \A y \in (x + 1)..Len(s) :
                               AllSpace(s, i + Len(kw), i + Len(kw) - 1 + y) =>
                                   \A m \in 1..Len(s) : ~NameMatch(s, kw, stops, i, y, m))
    IN greedy(CHOOSE x \in 1..Len(s) :
                  NameMatchAt(s, kw, stops, x)
                  /\ \A y \in 1..(x - 1) : ~NameMatchAt(s, kw, stops, y))
\* r'in\s+([A-Za-z\s,]+?)(?:\s|$|for|with)' on the raw query.
location_match(s) == NameSearch(s, "in", {"for", "with"})
location_group(s) == NameGroup(s, "in", {"for", "with"})
extract_location(query) ==
    IF location_match(query) THEN Strip(location_group(query)) ELSE ""

\* A pattern list is a set of literal alternatives and a set of
\* <<a, b, min>> alternatives standing for a\s+b (min = 1) or a\s*b (min = 0).
MatchAny(s, lits, gaps) ==
    AnyIn(s, lits) \/ \E g \in gaps : ContainsGap(s, g[1], g[2], g[3])

heatmap_patterns(s) ==
    MatchAny(s, {"heatmap", "geographic", "geo", "mapping", "visualise", "visualize"},
                {<<"heat", "map", 0>>, <<"map", "data", 1>>, <<"geographic", "data", 1>>,
                 <<"affinity", "map", 1>>, <<"location", "data", 1>>})
demographic_patterns(s) ==
    MatchAny(s, {"demographic", "audience", "age", "gender"},
                {<<"who", "likes", 1>>, <<"audience", "for", 1>>, <<"popular", "with", 1>>,
                 <<"age", "group", 1>>, <<"gender", "breakdown", 1>>,
                 <<"demographic", "data", 1>>})
taste_patterns(s) ==
    MatchAny(s, {"taste", "characteristic", "metadata"},
                {<<"cultural", "tag", 1>>, <<"tag", "analysis", 1>>,
                 <<"cultural", "insight", 1>>, <<"taste", "profile", 1>>,
                 <<"what", "defines", 1>>, <<"characteristics", "of", 1>>})
location_based_patterns(s) ==
    MatchAny(s, {"regional"},
                {<<"popular", "in", 1>>, <<"trending", "in", 1>>, <<"specific", "to", 1>>,
                 <<"location", "based", 1>>, <<"area", "specific", 1>>,
                 <<"local", "preferences", 1>>, <<"area", "recommendations", 1>>})

\* Defined by classify_user_query but never consulted by its if/elif chain.
recommendation_patterns(s) ==
    MatchAny(s, {"restaurant", "food", "dining", "eat", "place", "venue", "bar", "cafe",
                 "recommend", "suggestion", "find",
                 "japanese", "italian", "chinese", "indian", "mexican", "thai", "french",
                 "korean", "museum", "park", "theater", "cinema", "shopping",
                 "entertainment"},
                {<<"looking", "for", 1>>})

\* The if/elif chain with the demographic test ahead of the heatmap test.
select_use_case_demographic_first(query_lower, location) ==
    IF demographic_patterns(query_lower) THEN DEMOGRAPHIC_INSIGHTS
    ELSE IF heatmap_patterns(query_lower) THEN HEATMAPS
    ELSE IF taste_patterns(query_lower) THEN TASTE_ANALYSIS
    ELSE IF location_based_patterns(query_lower) /\ location # "" THEN LOCATION_BASED_INSIGHTS
    ELSE RECOMMENDATION_INSIGHTS

\* The location-based arm without its `and location`.
select_use_case_any_location(query_lower, location) ==
    IF heatmap_patterns(query_lower) THEN HEATMAPS
    ELSE IF demographic_patterns(query_lower) THEN DEMOGRAPHIC_INSIGHTS
    ELSE IF taste_patterns(query_lower) THEN TASTE_ANALYSIS
    ELSE IF location_based_patterns(query_lower) THEN LOCATION_BASED_INSIGHTS
    ELSE RECOMMENDATION_INSIGHTS

\* The chain ending in a test of the recommendation patterns instead of a
\* bare else: a query matching no list is left without a use case.
select_use_case_no_default(query_lower, location) ==
    IF heatmap_patterns(query_lower) THEN HEATMAPS
    ELSE IF demographic_patterns(query_lower) THEN DEMOGRAPHIC_INSIGHTS
    ELSE IF taste_patterns(query_lower) THEN TASTE_ANALYSIS
    ELSE IF location_based_patterns(query_lower) /\ location # "" THEN LOCATION_BASED_INSIGHTS
    ELSE IF recommendation_patterns(query_lower) THEN RECOMMENDATION_INSIGHTS
    ELSE "unbound"

\* The if/elif chain that picks the use case.
select_use_case(query_lower, location) ==
    IF heatmap_patterns(query_lower) THEN HEATMAPS
    ELSE IF demographic_patterns(query_lower) THEN DEMOGRAPHIC_INSIGHTS
    ELSE IF taste_patterns(query_lower) THEN TASTE_ANALYSIS
    ELSE IF location_based_patterns(query_lower) /\ location # "" THEN LOCATION_BASED_INSIGHTS
    ELSE RECOMMENDATION_INSIGHTS

classify_user_query(query) ==
    LET classified_as(query_lower, location) ==
            [use_case |-> select_use_case(query_lower, location),
             location |-> location,
             query |-> query,
             query_lower |-> query_lower]
    IN classified_as(Lower(query), extract_location(query))

(***************************************************************************)
(* Parameter dictionaries: functions from key strings to value strings     *)
(***************************************************************************)

EmptyParams == [k \in {} |-> ""]
\* params[k] = v
Put(p, k, v) == [x \in (DOMAIN p) \cup {k} |-> IF x = k THEN v ELSE p[x]]
\* del params[k]
Del(p, k) == [x \in (DOMAIN p) \ {k} |-> p[x]]
\* dict.update(other)
Update(p, other) ==
    [x \in (DOMAIN p) \cup (DOMAIN other) |-> IF x \in DOMAIN other THEN other[x] ELSE p[x]]
\* {k: v}.  A rule `if cond: params[k] = v` reads
\* Update(params, IF cond THEN Entry(k, v) ELSE EmptyParams).
Entry(k, v) == [x \in {k} |-> v]
\* `if cond: tags.append(tag)` as a list contribution.
TagIf(cond, tag) == IF cond THEN <<tag>> ELSE <<>>
\* `if tags: params["filter.tags"] = ",".join(tags)` (and its exclude twin).
PutTags(p, k, tags) == IF Len(tags) > 0 THEN Put(p, k, JoinComma(tags)) ELSE p

ARTIST == "urn:entity:artist"
BOOK == "urn:entity:book"
BRAND == "urn:entity:brand"
DESTINATION == "urn:entity:destination"
MOVIE == "urn:entity:movie"
PERSON == "urn:entity:person"
PLACE == "urn:entity:place"
PODCAST == "urn:entity:podcast"
TV_SHOW == "urn:entity:tv_show"
VIDEO_GAME == "urn:entity:video_game"
EntityTypes ==
    {ARTIST, BOOK, BRAND, DESTINATION, MOVIE, PERSON, PLACE, PODCAST, TV_SHOW, VIDEO_GAME}

\* What a call of the extractor produces: a returned (entity_type, params)
\* pair, or an exception that leaves the function.
Returned(entity_type, params) ==
    [raised |-> FALSE, error |-> "", entity_type |-> entity_type, params |-> params]
Raised(error) ==
    [raised |-> TRUE, error |-> error, entity_type |-> "", params |-> EmptyParams]

(***************************************************************************)
(* _determine_entity_and_comprehensive_params: trigger words of the        *)
(* if/elif cascade, in source order                                        *)
(***************************************************************************)

artist_words ==
    {"artist", "musician", "singer", "band", "composer", "painter", "sculptor", "performer"}
brand_words ==
    {"brand", "company", "retail", "chain", "franchise", "corporation", "business"}
movie_words == {"movie", "film", "cinema", "blockbuster", "flick"}
person_words ==
    {"person", "celebrity", "actor", "actress", "director", "politician", "athlete",
     "public figure"}
movie_words_2 == {"movie", "film", "cinema", "blockbuster"}
tv_show_words == {"tv", "show", "series", "television", "netflix", "streaming", "episode"}
podcast_words == {"podcast", "audio", "episode", "series"}
tv_show_words_2 == {"tv", "show", "series", "television", "netflix", "streaming"}
video_game_words == {"game", "video game", "gaming", "console", "pc game"}

\* The artist popularity rule as independent tests, each applied on a match.
artist_popularity_independent(q, p) ==
    LET In(w) == Contains(q, w)
    IN Update(Update(p, IF In("popular") \/ In("famous") \/ In("well-known")
                            THEN Entry("filter.popularity.min", "0.7")
                        ELSE IF In("mainstream") THEN Entry("filter.popularity.min", "0.6")
                        ELSE EmptyParams),
              IF In("underground") \/ In("indie") \/ In("emerging")
                  THEN Entry("filter.popularity.max", "0.4")
              ELSE EmptyParams)
\* The artist popularity rule: an if/elif chain, first match wins.
artist_popularity_swapped(q, p) ==
    LET In(w) == Contains(q, w)
    IN IF In("underground") \/ In("indie") \/ In("emerging")
           THEN Put(p, "filter.popularity.max", "0.4")
       ELSE IF In("popular") \/ In("famous") \/ In("well-known")
           THEN Put(p, "filter.popularity.min", "0.7")
       ELSE IF In("mainstream") THEN Put(p, "filter.popularity.min", "0.6")
       ELSE p
artist_popularity(q, p) ==
    LET In(w) == Contains(q, w)
    IN IF In("popular") \/ In("famous") \/ In("well-known")
           THEN Put(p, "filter.popularity.min", "0.7")
       ELSE IF In("underground") \/ In("indie") \/ In("emerging")
           THEN Put(p, "filter.popularity.max", "0.4")
       ELSE IF In("mainstream") THEN Put(p, "filter.popularity.min", "0.6")
       ELSE p

\* The body under `if any(... artist words ...)`.
artist_branch(q) ==
    LET In(w) == Contains(q, w)
        p0 == Entry("filter.type", ARTIST)
        p1 == Update(p0,
              IF In("trending") \/ In("hot") \/ In("viral") THEN Entry("bias.trends", "high")
              ELSE IF In("classic") \/ In("timeless") THEN Entry("bias.trends", "low")
              ELSE EmptyParams)
        p2 == artist_popularity(q, p1)
        artist_tags ==
            TagIf(In("rock"), "urn:tag:genre:music:rock")
            \o TagIf(In("pop"), "urn:tag:genre:music:pop")
            \o TagIf(In("jazz"), "urn:tag:genre:music:jazz")
            \o TagIf(In("classical"), "urn:tag:genre:music:classical")
            \o TagIf(In("hip hop") \/ In("rap"), "urn:tag:genre:music:hip_hop")
            \o TagIf(In("electronic") \/ In("edm"), "urn:tag:genre:music:electronic")
            \o TagIf(In("country"), "urn:tag:genre:music:country")
            \o TagIf(In("folk"), "urn:tag:genre:music:folk")
            \o TagIf(In("painter") \/ In("painting"), "urn:tag:medium:visual:painting")
            \o TagIf(In("sculptor") \/ In("sculpture"), "urn:tag:medium:visual:sculpture")
            \o TagIf(In("photographer") \/ In("photography"),
                     "urn:tag:medium:visual:photography")
        p3 == PutTags(p2, "filter.tags", artist_tags)
        p4 == Update(p3,
              IF In("spotify") THEN Entry("filter.external.exists", "spotify")
              ELSE IF In("instagram") THEN Entry("filter.external.exists", "instagram")
              ELSE IF In("youtube") THEN Entry("filter.external.exists", "youtube")
              ELSE EmptyParams)
        exclude_terms ==
            TagIf(In("not indie"), "urn:tag:genre:music:indie")
            \o TagIf(In("not mainstream"), "urn:tag:genre:music:mainstream")
        p5 == PutTags(p4, "filter.exclude.tags", exclude_terms)
    IN Returned(ARTIST, p5)

\* The body under `elif any(... brand words ...)`: the brand rules, then the
\* statements that follow them in the same block and reassign entity_type
\* and filter.type to the book URN and apply the book rules.
brand_branch(q) ==
    LET In(w) == Contains(q, w)
        p0 == Entry("filter.type", BRAND)
        p1 == Update(p0,
              IF In("trending") \/ In("hot") \/ In("growing") THEN Entry("bias.trends", "high")
              ELSE IF In("established") \/ In("traditional") THEN Entry("bias.trends", "low")
              ELSE EmptyParams)
        p2 == Update(p1,
              IF In("popular") \/ In("well-known") \/ In("major")
                  THEN Entry("filter.popularity.min", "0.7")
              ELSE IF In("niche") \/ In("boutique") \/ In("small")
                  THEN Entry("filter.popularity.max", "0.4")
              ELSE IF In("emerging") \/ In("startup")
                  THEN Entry("filter.popularity.max", "0.5")
              ELSE EmptyParams)
        brand_tags ==
            TagIf(In("fashion") \/ In("clothing"), "urn:tag:category:brand:fashion")
            \o TagIf(In("technology") \/ In("tech"), "urn:tag:category:brand:technology")
            \o TagIf(In("food") \/ In("restaurant"), "urn:tag:category:brand:food")
            \o TagIf(In("retail") \/ In("shopping"), "urn:tag:category:brand:retail")
            \o TagIf(In("automotive") \/ In("car"), "urn:tag:category:brand:automotive")
            \o TagIf(In("luxury") \/ In("premium"), "urn:tag:category:brand:luxury")
            \o TagIf(In("budget") \/ In("affordable"), "urn:tag:category:brand:budget")
            \o TagIf(In("sustainable") \/ In("eco") \/ In("green"),
                     "urn:tag:category:brand:sustainable")
        p3 == PutTags(p2, "filter.tags", brand_tags)
        p4 == Update(p3,
              IF In("website") THEN Entry("filter.external.exists", "website")
              ELSE IF In("social media")
                  THEN Entry("filter.external.exists", "instagram,twitter,facebook")
              ELSE EmptyParams)
        p5 == Update(p4,
              IF In("subsidiary") \/ In("owned by")
                  THEN Entry("filter.parents.types", BRAND)
              ELSE EmptyParams)
        exclude_terms ==
            TagIf(In("not luxury"), "urn:tag:category:brand:luxury")
            \o TagIf(In("not budget"), "urn:tag:category:brand:budget")
        p6 == Update(p5,
              IF Len(exclude_terms) > 0
                  THEN Put(Entry("filter.exclude.tags", JoinComma(exclude_terms)),
                           "operator.exclude.tags", "union")
              ELSE EmptyParams)
        p7 == Put(p6, "filter.type", BOOK)
        p8 == Update(p7,
              IF HasYear(q) THEN Entry("filter.publication_year.min", FirstYear(q)) ELSE EmptyParams)
        p9 == Update(p8,
              IF In("recent") \/ In("new") THEN Entry("filter.publication_year.min", "2020")
              ELSE EmptyParams)
    IN Returned(BOOK, p9)

\* The body under the first `elif any(... movie words ...)`.
movie_branch(q) ==
    LET In(w) == Contains(q, w)
        p0 == Entry("filter.type", MOVIE)
        p1 == Update(p0,
              IF HasYear(q) THEN Entry("filter.release_year.min", FirstYear(q)) ELSE EmptyParams)
        p2 == Update(p1,
              IF In("recent") \/ In("new") THEN Entry("filter.release_year.min", "2020")
              ELSE IF In("classic") THEN Entry("filter.release_year.max", "1990")
              ELSE IF In("80s")
                  THEN Put(Entry("filter.release_year.min", "1980"),
                           "filter.release_year.max", "1989")
              ELSE IF In("90s")
                  THEN Put(Entry("filter.release_year.min", "1990"),
                           "filter.release_year.max", "1999")
              ELSE EmptyParams)
        p3 == Update(p2,
              IF In("family") \/ In("kids") THEN Entry("filter.content_rating", "G,PG")
              ELSE IF In("teen") THEN Entry("filter.content_rating", "PG-13")
              ELSE IF In("mature") \/ In("adult") THEN Entry("filter.content_rating", "R")
              ELSE EmptyParams)
        p4 == Update(p3,
              IF In("highly rated") \/ In("top rated") THEN Entry("filter.rating.min", "4.0")
              ELSE IF In("good") THEN Entry("filter.rating.min", "3.5")
              ELSE EmptyParams)
        p5 == Update(p4,
              IF In("blockbuster") \/ In("popular") THEN Entry("filter.popularity.min", "0.7")
              ELSE IF In("indie") \/ In("independent")
                  THEN Entry("filter.popularity.max", "0.5")
              ELSE EmptyParams)
        p6 == Update(p5,
              IF In("trending") \/ In("viral") THEN Entry("bias.trends", "high") ELSE EmptyParams)
        p7 == Update(p6,
              IF In("hollywood") \/ In("american")
                  THEN Entry("filter.release_country", "United States")
              ELSE IF In("bollywood") \/ In("indian")
                  THEN Entry("filter.release_country", "India")
              ELSE IF In("british") \/ In("uk")
                  THEN Entry("filter.release_country", "United Kingdom")
              ELSE IF In("french") THEN Entry("filter.release_country", "France")
              ELSE IF In("japanese") THEN Entry("filter.release_country", "Japan")
              ELSE EmptyParams)
        movie_tags ==
            TagIf(In("action"), "urn:tag:genre:media:action")
            \o TagIf(In("comedy"), "urn:tag:genre:media:comedy")
            \o TagIf(In("drama"), "urn:tag:genre:media:drama")
            \o TagIf(In("horror"), "urn:tag:genre:media:horror")
            \o TagIf(In("romance") \/ In("romantic"), "urn:tag:genre:media:romance")
            \o TagIf(In("thriller"), "urn:tag:genre:media:thriller")
            \o TagIf(In("sci-fi") \/ In("science fiction"),
                     "urn:tag:genre:media:science_fiction")
            \o TagIf(In("fantasy"), "urn:tag:genre:media:fantasy")
            \o TagIf(In("documentary"), "urn:tag:genre:media:documentary")
            \o TagIf(In("animation") \/ In("animated"), "urn:tag:genre:media:animation")
        p8 == PutTags(p7, "filter.tags", movie_tags)
        p9 == Update(p8,
              IF In("imdb") THEN Entry("filter.external.exists", "imdb")
              ELSE IF In("rotten tomatoes")
                  THEN Entry("filter.external.exists", "rottentomatoes")
              ELSE IF In("metacritic") THEN Entry("filter.external.exists", "metacritic")
              ELSE EmptyParams)
    IN Returned(MOVIE, p9)

\* re.search(r'born in\s+(19|20)\d{2}', query_text) is not None
born_in_year_match(q) ==
    \E i \in 1..Len(q) :
        /\ At(q, i, "born in")
        /\ \E n \in 1..Len(q) :
               /\ AllSpace(q, i + 7, i + 6 + n)
               /\ YearAt(q, i + 7 + n)

\* The body under `elif any(... person words ...)`: the person rules, then
\* the statements that follow them in the same block and reassign
\* entity_type and filter.type to the destination URN.  year_match.group(2)
\* names a group the pattern does not have, so a match raises IndexError.
person_branch(q) ==
    LET In(w) == Contains(q, w)
        p0 == Entry("filter.type", PERSON)
        p1 == Update(p0,
              IF In("male") \/ In("men") THEN Entry("filter.gender", "male")
              ELSE IF In("female") \/ In("women") THEN Entry("filter.gender", "female")
              ELSE EmptyParams)
        p2 == Update(p1,
              IF In("young") \/ In("under 30")
                  THEN Entry("filter.date_of_birth.min", "1990-01-01")
              ELSE IF In("veteran") \/ In("experienced")
                  THEN Entry("filter.date_of_birth.max", "1970-01-01")
              ELSE EmptyParams)
        p3 == Update(p2,
              IF In("famous") \/ In("well-known") THEN Entry("filter.popularity.min", "0.7")
              ELSE IF In("emerging") \/ In("up-and-coming")
                  THEN Entry("filter.popularity.max", "0.5")
              ELSE EmptyParams)
        p4 == Update(p3,
              IF In("trending") \/ In("viral") THEN Entry("bias.trends", "high") ELSE EmptyParams)
        person_tags ==
            TagIf(In("actor") \/ In("actress"), "urn:tag:profession:actor")
            \o TagIf(In("director"), "urn:tag:profession:director")
            \o TagIf(In("musician") \/ In("singer"), "urn:tag:profession:musician")
            \o TagIf(In("politician"), "urn:tag:profession:politician")
            \o TagIf(In("athlete") \/ In("sports"), "urn:tag:profession:athlete")
            \o TagIf(In("author") \/ In("writer"), "urn:tag:profession:author")
        p5 == PutTags(p4, "filter.tags", person_tags)
        p6 == Update(p5,
              IF In("instagram") THEN Entry("filter.external.exists", "instagram")
              ELSE IF In("twitter") THEN Entry("filter.external.exists", "twitter")
              ELSE IF In("imdb") THEN Entry("filter.external.exists", "imdb")
              ELSE EmptyParams)
        p7 == Put(p6, "filter.type", DESTINATION)
        p8 == Update(p7,
              IF In("usa") \/ In("america") THEN Entry("filter.geocode.country_code", "US")
              ELSE IF In("uk") \/ In("britain")
                  THEN Entry("filter.geocode.country_code", "GB")
              ELSE IF In("japan") THEN Entry("filter.geocode.country_code", "JP")
              ELSE IF In("india") THEN Entry("filter.geocode.country_code", "IN")
              ELSE EmptyParams)
    IN IF In("born in") /\ born_in_year_match(q)
       THEN Raised("no such group")
       ELSE Returned(DESTINATION, p8)

\* The body under the second `elif any(... movie words ...)`.
movie_branch_2(q) ==
    LET In(w) == Contains(q, w)
        p0 == Entry("filter.type", MOVIE)
        p1 == Update(p0,
              IF In("recent") \/ In("new") THEN Entry("filter.release_year.min", "2020")
              ELSE EmptyParams)
        p2 == Update(p1,
              IF In("classic") THEN Entry("filter.release_year.max", "1990") ELSE EmptyParams)
        p3 == Update(p2,
              IF In("family") \/ In("kids") THEN Entry("filter.content_rating", "G,PG")
              ELSE IF In("mature") THEN Entry("filter.content_rating", "R")
              ELSE EmptyParams)
        genre_tags ==
            TagIf(In("action"), "urn:tag:genre:media:action")
            \o TagIf(In("comedy"), "urn:tag:genre:media:comedy")
            \o TagIf(In("drama"), "urn:tag:genre:media:drama")
            \o TagIf(In("horror"), "urn:tag:genre:media:horror")
            \o TagIf(In("romance") \/ In("romantic"), "urn:tag:genre:media:romance")
        p4 == PutTags(p3, "filter.tags", genre_tags)
    IN Returned(MOVIE, p4)

\* The body under the first `elif any(... tv words ...)`: the TV rules, then
\* the statements that follow them in the same block and reassign
\* entity_type and filter.type to the person URN and apply a gender rule.
tv_show_branch(q) ==
    LET In(w) == Contains(q, w)
        p0 == Entry("filter.type", TV_SHOW)
        p1 == Update(p0,
              IF In("recent") \/ In("new") THEN Entry("filter.release_year.min", "2020")
              ELSE IF In("classic") THEN Entry("filter.release_year.max", "2000")
              ELSE EmptyParams)
        p2 == Update(p1,
              IF In("ended") \/ In("finished") THEN Entry("filter.finale_year.max", "2023")
              ELSE IF In("ongoing") \/ In("current")
                  THEN Entry("filter.finale_year.min", "2024")
              ELSE EmptyParams)
        p3 == Update(p2,
              IF In("updated recently") THEN Entry("filter.latest_known_year.min", "2022")
              ELSE EmptyParams)
        p4 == Update(p3,
              IF In("family") \/ In("kids") THEN Entry("filter.content_rating", "TV-G,TV-PG")
              ELSE IF In("mature") THEN Entry("filter.content_rating", "TV-MA")
              ELSE EmptyParams)
        p5 == Update(p4,
              IF In("highly rated") THEN Entry("filter.rating.min", "4.0")
              ELSE IF In("good") THEN Entry("filter.rating.min", "3.5")
              ELSE EmptyParams)
        p6 == Update(p5,
              IF In("popular") \/ In("hit") THEN Entry("filter.popularity.min", "0.7")
              ELSE IF In("cult") \/ In("niche") THEN Entry("filter.popularity.max", "0.5")
              ELSE EmptyParams)
        p7 == Update(p6,
              IF In("trending") \/ In("viral") THEN Entry("bias.trends", "high") ELSE EmptyParams)
        p8 == Update(p7,
              IF In("american") \/ In("us")
                  THEN Entry("filter.release_country", "United States")
              ELSE IF In("british") \/ In("uk")
                  THEN Entry("filter.release_country", "United Kingdom")
              ELSE IF In("korean") \/ In("k-drama")
                  THEN Entry("filter.release_country", "South Korea")
              ELSE IF In("japanese") \/ In("anime")
                  THEN Entry("filter.release_country", "Japan")
              ELSE EmptyParams)
        tv_tags ==
            TagIf(In("drama"), "urn:tag:genre:media:drama")
            \o TagIf(In("comedy"), "urn:tag:genre:media:comedy")
            \o TagIf(In("reality"), "urn:tag:genre:media:reality")
            \o TagIf(In("documentary"), "urn:tag:genre:media:documentary")
            \o TagIf(In("crime"), "urn:tag:genre:media:crime")
            \o TagIf(In("sci-fi"), "urn:tag:genre:media:science_fiction")
            \o TagIf(In("fantasy"), "urn:tag:genre:media:fantasy")
            \o TagIf(In("anime"), "urn:tag:genre:media:anime")
        p9 == PutTags(p8, "filter.tags", tv_tags)
        p10 == Put(p9, "filter.type", PERSON)
        p11 == Update(p10,
               IF In("male") THEN Entry("filter.gender", "male")
               ELSE IF In("female") THEN Entry("filter.gender", "female")
               ELSE EmptyParams)
    IN Returned(PERSON, p11)

\* The podcast type returned with filter.type left unset.
podcast_branch_untyped(q) == Returned(PODCAST, EmptyParams)
\* The body under `elif any(... podcast words ...)`.
podcast_branch(q) == Returned(PODCAST, Entry("filter.type", PODCAST))

\* The body under the second `elif any(... tv words ...)`.
tv_show_branch_2(q) ==
    LET In(w) == Contains(q, w)
        p0 == Entry("filter.type", TV_SHOW)
        p1 == Update(p0,
              IF In("recent") \/ In("new") THEN Entry("filter.release_year.min", "2020")
              ELSE EmptyParams)
        p2 == Update(p1,
              IF In("ended") \/ In("finished") THEN Entry("filter.finale_year.max", "2023")
              ELSE EmptyParams)
    IN Returned(TV_SHOW, p2)

\* The body under `elif any(... video game words ...)`.
video_game_branch(q) == Returned(VIDEO_GAME, Entry("filter.type", VIDEO_GAME))

\* re.search(r'(\d+)\s*(people|person|party)'): one attempt at start i with
\* n digits and g whitespace characters.
party_words == {"people", "person", "party"}
PartyMatch(s, i, n, g) ==
    /\ n >= 1 /\ g >= 0
    /\ i + n - 1 <= Len(s)
    /\ AllDigit(s, i, i + n - 1)
    /\ AllSpace(s, i + n, i + n + g - 1)
    /\ i + n + g - 1 <= Len(s)
    /\ \E w \in party_words : At(s, i + n + g, w)
PartyMatchAt(s, i) ==
    /\ IsDigit(Char(s, i))
    /\ \E n \in 1..Len(s) : \E g \in 0..Len(s) : PartyMatch(s, i, n, g)
party_match(s) == \E i \in 1..Len(s) : PartyMatchAt(s, i)
\* group(1): leftmost start, greedy \d+.
party_group(s) ==
    LET digits(i, n) == SubSeq(s, i, i + n - 1)
        greedy(i) ==
            digits(i, CHOOSE x \in 1..Len(s) :
                          /\ \E g \in 0..Len(s) : PartyMatch(s, i, x, g)
                          /\ \A y \in (x + 1)..Len(s) :
                                 \A g \in 0..Len(s) : ~PartyMatch(s, i, y, g))
    IN greedy(CHOOSE x \in 1..Len(s) :
                  PartyMatchAt(s, x) /\ \A y \in 1..(x - 1) : ~PartyMatchAt(s, y))

\* cuisine_map, in insertion order.
cuisine_map ==
    <<"japanese", "italian", "chinese", "indian", "mexican", "thai", "french", "korean",
      "american", "mediterranean">>
\* `for cuisine, tag in cuisine_map.items(): if cuisine in q: append(tag)`
RECURSIVE cuisine_tags(_, _)
cuisine_tags(q, i) ==
    IF i > Len(cuisine_map) THEN <<>>
    ELSE TagIf(Contains(q, cuisine_map[i]), "urn:tag:cuisine:" \o cuisine_map[i])
         \o cuisine_tags(q, i + 1)

\* days_map, in insertion order: <<text, parameter value>>.
days_map ==
    <<<<"monday", "Monday">>, <<"tuesday", "Tuesday">>, <<"wednesday", "Wednesday">>,
      <<"thursday", "Thursday">>, <<"friday", "Friday">>, <<"saturday", "Saturday">>,
      <<"sunday", "Sunday">>>>
brand_keywords == <<"starbucks", "mcdonalds", "hilton", "marriott", "walmart", "target">>
\* Index of the first list entry found in q (the loops `break` on it), 0 if none.
FirstDay(q) ==
    IF \E i \in 1..Len(days_map) : Contains(q, days_map[i][1])
    THEN CHOOSE i \in 1..Len(days_map) :
             Contains(q, days_map[i][1]) /\ \A j \in 1..(i - 1) : ~Contains(q, days_map[j][1])
    ELSE 0
FirstBrand(q) ==
    IF \E i \in 1..Len(brand_keywords) : Contains(q, brand_keywords[i])
    THEN CHOOSE i \in 1..Len(brand_keywords) :
             Contains(q, brand_keywords[i])
             /\ \A j \in 1..(i - 1) : ~Contains(q, brand_keywords[j])
    ELSE 0

\* The `else:` body (place, the default).
place_branch(q) ==
    LET In(w) == Contains(q, w)
        p0 == Entry("filter.type", PLACE)
        is_food == AnyIn(q, {"restaurant", "food", "dining", "eat", "meal", "cuisine"})
        is_bar == AnyIn(q, {"bar", "pub", "nightlife", "drinks", "cocktail", "beer"})
        is_hotel == AnyIn(q, {"hotel", "accommodation", "stay", "lodge", "resort"})
        is_fun == AnyIn(q, {"museum", "theater", "cinema", "entertainment", "gallery"})
        is_shop == AnyIn(q, {"shopping", "mall", "store", "boutique", "market"})
        is_park == AnyIn(q, {"park", "outdoor", "nature", "garden", "beach"})
        place_tags ==
            IF is_food THEN <<"urn:tag:genre:place:restaurant">> \o cuisine_tags(q, 1)
            ELSE IF is_bar THEN <<"urn:tag:genre:place:bar">>
            ELSE IF is_hotel THEN <<"urn:tag:genre:place:hotel">>
            ELSE IF is_fun
                THEN IF In("museum") THEN <<"urn:tag:genre:place:museum">>
                     ELSE IF In("theater") \/ In("cinema")
                         THEN <<"urn:tag:genre:place:entertainment">>
                     ELSE <<>>
            ELSE IF is_shop THEN <<"urn:tag:genre:place:shopping">>
            ELSE IF is_park THEN <<"urn:tag:genre:place:park">>
            ELSE <<>>
        p1 == Update(p0,
              IF ~is_food /\ ~is_bar /\ is_hotel
                  THEN IF In("luxury") \/ In("5 star") THEN Entry("filter.hotel_class.min", "4")
                       ELSE IF In("budget") \/ In("cheap")
                           THEN Entry("filter.hotel_class.max", "2")
                       ELSE EmptyParams
              ELSE EmptyParams)
        p2 == PutTags(p1, "filter.tags", place_tags)
        p3 == Update(p2,
              IF AnyIn(q, {"expensive", "luxury", "high-end", "premium"})
                  THEN Entry("filter.price_level.min", "3")
              ELSE IF AnyIn(q, {"cheap", "budget", "affordable", "inexpensive"})
                  THEN Entry("filter.price_level.max", "2")
              ELSE IF In("mid-range") \/ In("moderate")
                  THEN Put(Entry("filter.price_level.min", "2"),
                           "filter.price_level.max", "3")
              ELSE EmptyParams)
        p4 == Update(p3,
              IF In("highly rated") \/ In("top rated")
                  THEN Entry("filter.properties.business_rating.min", "4.0")
              ELSE IF In("good rating")
                  THEN Entry("filter.properties.business_rating.min", "3.5")
              ELSE EmptyParams)
        p5 == Update(p4,
              IF In("popular") \/ In("trending") THEN Entry("filter.popularity.min", "0.7")
              ELSE IF In("hidden gem") \/ In("local")
                  THEN Entry("filter.popularity.max", "0.5")
              ELSE EmptyParams)
        p6 == Update(p5,
              IF FirstDay(q) # 0 THEN Entry("filter.hours", days_map[FirstDay(q)][2]) ELSE EmptyParams)
        p7 == Update(p6,
              IF NameSearch(q, "near", {})
                  THEN Entry("filter.address", Strip(NameGroup(q, "near", {})))
              ELSE EmptyParams)
        p8 == Update(p7,
              IF FirstBrand(q) # 0
                  THEN Entry("filter.references_brand",
                           "urn:entity:brand:" \o brand_keywords[FirstBrand(q)])
              ELSE EmptyParams)
        p9 == Update(p8,
              IF In("tripadvisor")
                  THEN IF In("highly rated")
                       THEN Put(Entry("filter.external.exists", "tripadvisor"),
                                "filter.external.tripadvisor.rating.min", "4.0")
                       ELSE Entry("filter.external.exists", "tripadvisor")
              ELSE EmptyParams)
        p10 == Update(p9,
               IF In("resy") \/ In("reservation") THEN Entry("filter.external.exists", "resy")
               ELSE EmptyParams)
        p11 == Update(p10,
               IF party_match(q)
                   THEN Entry("filter.external.resy.party_size.min", party_group(q))
               ELSE EmptyParams)
    IN Returned(PLACE, p11)

\* The branch of the if/elif/else cascade that a query text takes: the
\* first test, in source order, that succeeds.
entity_cascade(q) ==
    IF AnyIn(q, artist_words) THEN "artist"
    ELSE IF AnyIn(q, brand_words) THEN "brand"
    ELSE IF AnyIn(q, movie_words) THEN "movie"
    ELSE IF AnyIn(q, person_words) THEN "person"
    ELSE IF AnyIn(q, movie_words_2) THEN "movie_2"
    ELSE IF AnyIn(q, tv_show_words) THEN "tv_show"
    ELSE IF AnyIn(q, podcast_words) THEN "podcast"
    ELSE IF AnyIn(q, tv_show_words_2) THEN "tv_show_2"
    ELSE IF AnyIn(q, video_game_words) THEN "video_game"
    ELSE "place"

_determine_entity_and_comprehensive_params(query_text) ==
    LET b == entity_cascade(query_text)
    IN CASE b = "artist" -> artist_branch(query_text)
         [] b = "brand" -> brand_branch(query_text)
         [] b = "movie" -> movie_branch(query_text)
         [] b = "person" -> person_branch(query_text)
         [] b = "movie_2" -> movie_branch_2(query_text)
         [] b = "tv_show" -> tv_show_branch(query_text)
         [] b = "podcast" -> podcast_branch(query_text)
         [] b = "tv_show_2" -> tv_show_branch_2(query_text)
         [] b = "video_game" -> video_game_branch(query_text)
         [] OTHER -> place_branch(query_text)

(***************************************************************************)
(* _get_demographic_signals and build_qloo_parameters                      *)
(***************************************************************************)

\* The SocialContext enum values, in declaration order.
SocialContext ==
    <<"solo", "couple", "family", "friends", "business", "large_group", "tourists", "locals">>
SocialContextValues == {SocialContext[i] : i \in 1..Len(SocialContext)}

context_age_map ==
    [c \in SocialContextValues |->
        CASE c = "friends" -> "25_to_29,30_to_34"
          [] c = "couple" -> "25_to_29,30_to_34,35_to_44"
          [] c = "family" -> "30_to_34,35_to_44"
          [] c = "business" -> "35_to_44,45_to_54"
          [] c = "solo" -> "25_to_29,30_to_34"
          [] c = "large_group" -> "25_to_29,30_to_34"
          [] c = "tourists" -> "25_to_29,30_to_34,35_to_44"
          [] c = "locals" -> "30_to_34,35_to_44"]

\* The age signal of the default context whatever the context given.
_get_demographic_signals_default_only(social_context) ==
    Entry("signal.demographics.age", context_age_map["friends"])
_get_demographic_signals(social_context) ==
    IF social_context \in DOMAIN context_age_map
    THEN Entry("signal.demographics.age", context_age_map[social_context])
    ELSE EmptyParams

\* What a call of build_qloo_parameters produces: the parameter dictionary,
\* or the exception the extractor raised, which it does not catch.
Built(params) == [raised |-> FALSE, error |-> "", params |-> params]
BuildRaised(error) == [raised |-> TRUE, error |-> error, params |-> EmptyParams]

\* The tags copied to the signal and kept under filter.tags as well.
CopyTagsToSignal_keep_filter(qloo_params, entity_params) ==
    IF "filter.tags" \in DOMAIN entity_params
    THEN Put(Put(qloo_params, "signal.interests.tags", entity_params["filter.tags"]),
             "filter.tags", entity_params["filter.tags"])
    ELSE qloo_params
\* `if "filter.tags" in entity_params: qloo_params["signal.interests.tags"] = ...`
CopyTagsToSignal(qloo_params, entity_params) ==
    IF "filter.tags" \in DOMAIN entity_params
    THEN Put(qloo_params, "signal.interests.tags", entity_params["filter.tags"])
    ELSE qloo_params

build_qloo_parameters(use_case, params, social_context) ==
    LET query_text == params.query_lower
        location == params.location
        with_location(k) == IF location # "" THEN Entry(k, location) ELSE EmptyParams
        moved_tags(p) ==
            IF "filter.tags" \in DOMAIN p
            THEN Del(Put(p, "signal.interests.tags", p["filter.tags"]), "filter.tags")
            ELSE p
        with_entity(ext) ==
            CASE use_case = RECOMMENDATION_INSIGHTS ->
                   IF ext.raised THEN BuildRaised(ext.error)
                   ELSE Built(Update(Update(ext.params, with_location("filter.location.query")),
                                     _get_demographic_signals(social_context)))
              [] use_case = DEMOGRAPHIC_INSIGHTS ->
                   IF ext.raised THEN BuildRaised(ext.error)
                   ELSE Built(CopyTagsToSignal(Entry("filter.type", "urn:demographics"),
                                               ext.params))
              [] use_case = HEATMAPS ->
                   IF ext.raised THEN BuildRaised(ext.error)
                   ELSE Built(CopyTagsToSignal(
                                  Update(Entry("filter.type", "urn:heatmap"),
                                         with_location("filter.location.query")),
                                  ext.params))
              [] use_case = LOCATION_BASED_INSIGHTS ->
                   IF ext.raised THEN BuildRaised(ext.error)
                   ELSE Built(moved_tags(Put(ext.params, "signal.location.query", location)))
              [] use_case = TASTE_ANALYSIS ->
                   Built(Update(
                       Update(Entry("filter.type", "urn:tag"),
                              IF Contains(query_text, "media") \/ Contains(query_text, "movie")
                                 \/ Contains(query_text, "tv")
                                  THEN Put(Entry("filter.tag.types", "urn:tag:keyword:media"),
                                           "filter.parents.types",
                                           "urn:entity:movie,urn:entity:tv_show")
                              ELSE IF Contains(query_text, "place")
                                      \/ Contains(query_text, "restaurant")
                                  THEN Put(Entry("filter.tag.types", "urn:tag:genre:place"),
                                           "filter.parents.types", "urn:entity:place")
                              ELSE EmptyParams),
                       with_location("signal.location.query")))
    IN with_entity(_determine_entity_and_comprehensive_params(query_text))

\* The parameters the tool's documentation gives each entity type (genre
\* tags, popularity, trends and external platforms for all of them, then
\* years, ratings, dates, geography, prices and hours by type), as the keys
\* the extractor writes for them.
CommonKeys ==
    {"filter.type", "filter.tags", "filter.exclude.tags", "operator.exclude.tags",
     "filter.popularity.min", "filter.popularity.max", "bias.trends",
     "filter.external.exists"}
EntitySchema(entity_type) ==
    CommonKeys \cup
    CASE entity_type = BOOK -> {"filter.publication_year.min", "filter.publication_year.max"}
      [] entity_type = BRAND -> {"filter.parents.types"}
      [] entity_type = DESTINATION -> {"filter.geocode.country_code"}
      [] entity_type = MOVIE ->
             {"filter.release_year.min", "filter.release_year.max", "filter.content_rating",
              "filter.rating.min", "filter.release_country"}
      [] entity_type = PERSON ->
             {"filter.gender", "filter.date_of_birth.min", "filter.date_of_birth.max"}
      [] entity_type = PLACE ->
             {"filter.address", "filter.external.resy.party_size.min",
              "filter.external.tripadvisor.rating.min", "filter.hotel_class.min",
              "filter.hotel_class.max", "filter.hours", "filter.price_level.min",
              "filter.price_level.max", "filter.properties.business_rating.min",
              "filter.references_brand"}
      [] entity_type = TV_SHOW ->
             {"filter.release_year.min", "filter.release_year.max", "filter.finale_year.min",
              "filter.finale_year.max", "filter.latest_known_year.min",
              "filter.content_rating", "filter.rating.min", "filter.release_country"}
      [] OTHER -> {}
\* The keys build_qloo_parameters adds for the use case, whatever the type.
UseCaseKeys ==
    {"filter.location.query", "signal.location.query", "signal.demographics.age",
     "signal.interests.tags"}

(***************************************************************************)
(* make_qloo_request                                                       *)
(***************************************************************************)

QLOO_API_BASE == "https://hackathon.api.qloo.com/v2"
insights_endpoint == QLOO_API_BASE \o "/insights"

\* Values make_qloo_request can return: a dict made by the function itself
\* ({"error": msg}) or whatever response.json() decoded.  shape names the
\* decoded JSON: "full" an object whose results hold the list the use case
\* reads, non-empty; "empty" an object without such a list; "error_object" an
\* object with an "error" key; "array" a top-level list; "results_array" an
\* object whose "results" is a list; "null" the JSON null.
BodyShapes == {"full", "empty", "error_object", "array", "results_array", "null"}
ErrorDict(msg) == [type |-> "dict", has_error |-> TRUE, error |-> msg, shape |-> "error"]
JsonValue(shape) ==
    IF shape = "error_object"
    THEN [type |-> "dict", has_error |-> TRUE, error |-> "upstream error", shape |-> shape]
    ELSE [type |-> IF shape = "array" THEN "list" ELSE IF shape = "null" THEN "null" ELSE "dict",
          has_error |-> FALSE, error |-> "", shape |-> shape]
NoResponse == [type |-> "none", has_error |-> FALSE, error |-> "", shape |-> "none"]

\* Outcomes of `await client.get(...)`, raise_for_status() and json(), with
\* the str(e) of the exception each failure raises.
HttpFailures == {"connect_error", "timeout", "status_4xx", "status_5xx", "decode_error"}
HttpOutcomes == HttpFailures \cup {"ok"}
FailureText(outcome) ==
    CASE outcome = "connect_error" -> "All connection attempts failed"
      [] outcome = "timeout" -> "timed out"
      [] outcome = "status_4xx" -> "Client error '400 Bad Request'"
      [] outcome = "status_5xx" -> "Server error '500 Internal Server Error'"
      [] outcome = "decode_error" -> "Expecting value"

\* The credential test left out.
KeyMissing_unchecked(key) == FALSE
\* `if not qloo_api_key`: os.getenv gave None or the empty string.
KeyMissing(key) == key = ""

\* The query string keeps the pairs whose value is truthy.
QueryPairs(params) == [k \in {x \in DOMAIN params : params[x] # ""} |-> params[k]]
Request(endpoint, params) == [endpoint |-> endpoint, params |-> QueryPairs(params)]

\* make_qloo_request up to its await: either it returns the missing-key
\* dict without touching the network, or it issues one GET.
make_qloo_request_start(key, endpoint, params) ==
    IF KeyMissing(key)
    THEN [issued |-> FALSE, response |-> ErrorDict("QLOO_API_KEY environment variable not set"),
          request |-> Request(endpoint, EmptyParams)]
    ELSE [issued |-> TRUE, response |-> NoResponse, request |-> Request(endpoint, params)]

\* The except clause catching httpx errors only: a body that does not decode
\* leaves the function as an exception instead of a dict.
make_qloo_request_finish_narrow_except(outcome, shape) ==
    IF outcome = "decode_error"
    THEN [type |-> "raised", has_error |-> FALSE, error |-> FailureText(outcome),
          shape |-> "none"]
    ELSE IF outcome \in HttpFailures
    THEN ErrorDict("API request failed: " \o FailureText(outcome))
    ELSE JsonValue(shape)
\* The GETs make_qloo_request has issued by the time it returns: a second one
\* after a transport failure.
client_get_calls_retry(requests, outcome) ==
    IF outcome \in {"connect_error", "timeout"} THEN Append(requests, requests[1])
    ELSE requests
\* The GETs make_qloo_request has issued by the time it returns: the single
\* client.get of the try block; the except clause returns without another.
client_get_calls(requests, outcome) == requests

\* make_qloo_request after the await: the try/except around get,
\* raise_for_status and json.
make_qloo_request_finish(outcome, shape) ==
    IF outcome \in HttpFailures
    THEN ErrorDict("API request failed: " \o FailureText(outcome))
    ELSE JsonValue(shape)

(***************************************************************************)
(* Response formatting (the _format_* functions, by what they return)      *)
(***************************************************************************)

Formatted(text) == [raised |-> FALSE, text |-> text]
FormatRaised(error) == [raised |-> TRUE, text |-> error]

\* response.get / results.get on a list raises AttributeError.
ShapeRaises(response) == response.type = "list" \/ response.shape = "results_array"

_format_recommendation_response(response, params, social_context) ==
    IF ShapeRaises(response) THEN FormatRaised("'list' object has no attribute 'get'")
    ELSE IF response.shape = "full"
        THEN Formatted("Recommendations for " \o social_context \o " in " \o params.location)
    ELSE Formatted("No recommendations found for your query in " \o params.location
                   \o ". Try different search terms.")

_format_demographic_response(response, entity_or_tag) ==
    IF ShapeRaises(response) THEN FormatRaised("'list' object has no attribute 'get'")
    ELSE IF response.shape = "full" THEN Formatted("Demographic Analysis: " \o entity_or_tag)
    ELSE Formatted("No demographic data found for '" \o entity_or_tag \o "'")

_format_heatmap_response(response, location, interest_type) ==
    IF ShapeRaises(response) THEN FormatRaised("'list' object has no attribute 'get'")
    ELSE IF response.shape = "full"
        THEN Formatted("Heatmap Analysis: " \o interest_type \o " in " \o location)
    ELSE Formatted("No heatmap data found for " \o location)

_format_taste_analysis_response(response, query) ==
    IF ShapeRaises(response) THEN FormatRaised("'list' object has no attribute 'get'")
    ELSE IF response.shape = "full" THEN Formatted("Taste Analysis: " \o query)
    ELSE Formatted("No taste analysis data found for '" \o query \o "'")

\* The else arm of the dispatcher, for a use case that is none of the five.
_format_generic_response(response) ==
    IF response.type = "list" THEN Formatted("Response: []...")
    ELSE IF response.shape = "results_array" THEN Formatted("Results: []...")
    ELSE Formatted("Results:")

_format_qloo_response(response, use_case, params, social_context) ==
    CASE use_case = RECOMMENDATION_INSIGHTS ->
             _format_recommendation_response(response, params, social_context)
      [] use_case = DEMOGRAPHIC_INSIGHTS -> _format_demographic_response(response, params.query)
      [] use_case = HEATMAPS -> _format_heatmap_response(response, params.location, "general")
      [] use_case = LOCATION_BASED_INSIGHTS ->
             _format_recommendation_response(response, params, social_context)
      [] use_case = TASTE_ANALYSIS -> _format_taste_analysis_response(response, params.query)
      [] OTHER -> _format_generic_response(response)

(***************************************************************************)
(* The MCP tools.  Each tool runs to its first await (the GET inside       *)
(* make_qloo_request) or to its return; <tool>_start is that first part    *)
(* and <tool>_finish the part that runs once the GET has an outcome.       *)
(***************************************************************************)

\* sep.join(list)
RECURSIVE JoinWith(_, _)
JoinWith(l, sep) ==
    IF Len(l) = 0 THEN ""
    ELSE IF Len(l) = 1 THEN l[1]
    ELSE l[1] \o sep \o JoinWith(Tail(l), sep)

NoParams == [use_case |-> "", location |-> "", query |-> "", query_lower |-> ""]
\* The locals a tool keeps across its await.
Frame(use_case, params, qloo_params) ==
    [use_case |-> use_case, params |-> params, qloo_params |-> qloo_params]
NoFrame == Frame("", NoParams, EmptyParams)
\* What debug_query_analysis renders into its output string.
NoData == [use_case |-> "", entity_type |-> "", entity_params |-> EmptyParams,
           qloo_params |-> EmptyParams]
\* A returned string: its text (without the leading emoji) and, for the debug
\* tool, the values it renders after the text; raised is off for every
\* value a tool returns.
Text(text) == [raised |-> FALSE, text |-> text, data |-> NoData]
\* An exception that leaves the tool instead of a returned string.
Escaped(error) == [raised |-> TRUE, text |-> error, data |-> NoData]
NoResult == Text("")

\* A tool that returned before any await, and a tool suspended on its GET.
Return(result, response, frame) ==
    [awaiting |-> FALSE, result |-> result, response |-> response, frame |-> frame,
     request |-> Request("", EmptyParams)]
Await(request, frame) ==
    [awaiting |-> TRUE, result |-> NoResult, response |-> NoResponse, frame |-> frame,
     request |-> request]

\* The validation skipped for an empty context.
InvalidContext_skip_empty(social_context) ==
    social_context # "" /\ Lower(social_context) \notin SocialContextValues
\* `SocialContext(social_context.lower())` raises ValueError.
InvalidContext(social_context) == Lower(social_context) \notin SocialContextValues
InvalidContextText(social_context) ==
    "Invalid social context '" \o social_context \o "'. Valid options: "
    \o JoinWith(SocialContext, ", ")

\* The shared tail of the network tools up to the await: call
\* make_qloo_request and, if it returned without a GET, test "error".
RequestOrError(key, qloo_params, frame) ==
    LET r == make_qloo_request_start(key, insights_endpoint, qloo_params)
    IN IF r.issued THEN Await(r.request, frame)
       ELSE Return(Text("Error: " \o r.response.error), r.response, frame)

\* The same for the tools that keep nothing but the parameters they built.
SendParams(key, qloo_params) ==
    RequestOrError(key, qloo_params, Frame("", NoParams, qloo_params))

\* The shared tail after the await without the tool's try/except: what the
\* membership test or the formatter raises leaves the tool.
ErrorOrFormat_uncaught(response, formatted, prefix) ==
    IF response.type = "null" THEN Escaped("argument of type 'NoneType' is not iterable")
    ELSE IF response.has_error THEN Text("Error: " \o response.error)
    ELSE IF formatted.raised THEN Escaped(formatted.text)
    ELSE Text(formatted.text)
\* The shared tail after the await: `if "error" in response` (a TypeError on
\* None) else format, inside the tool's try/except whose message starts with
\* prefix.
ErrorOrFormat(response, formatted, prefix) ==
    IF response.type = "null"
    THEN Text(prefix \o "argument of type 'NoneType' is not iterable")
    ELSE IF response.has_error THEN Text("Error: " \o response.error)
    ELSE IF formatted.raised THEN Text(prefix \o formatted.text)
    ELSE Text(formatted.text)

get_qloo_recommendations_start(query, social_context, key) ==
    IF InvalidContext(social_context)
    THEN Return(Text(InvalidContextText(social_context)), NoResponse, NoFrame)
    ELSE LET built_as(params, b) ==
                 IF b.raised
                 THEN Return(Text("Error processing query: " \o b.error), NoResponse,
                             Frame(params.use_case, params, EmptyParams))
                 ELSE RequestOrError(key, b.params, Frame(params.use_case, params, b.params))
             classified_as(params) ==
                 built_as(params, build_qloo_parameters(params.use_case, params, social_context))
         IN classified_as(classify_user_query(query))

get_qloo_recommendations_finish(frame, social_context, response) ==
    ErrorOrFormat(response,
                  _format_qloo_response(response, frame.use_case, frame.params, social_context),
                  "Error processing query: ")

get_demographic_insights_start(entity_or_tag, location, key) ==
    LET e == Lower(entity_or_tag)
        p0 == Entry("filter.type", "urn:demographics")
        p1 == Update(p0,
              IF AnyIn(e, {"movie", "film", "action", "comedy", "drama"})
                  THEN IF Contains(e, "action")
                           THEN Entry("signal.interests.tags", "urn:tag:genre:media:action")
                       ELSE IF Contains(e, "comedy")
                           THEN Entry("signal.interests.tags", "urn:tag:genre:media:comedy")
                       ELSE IF Contains(e, "drama")
                           THEN Entry("signal.interests.tags", "urn:tag:genre:media:drama")
                       ELSE EmptyParams
              ELSE IF AnyIn(e, {"restaurant", "food", "cuisine"})
                  THEN Entry("signal.interests.tags", "urn:tag:genre:place:restaurant")
              ELSE EmptyParams)
        p2 == Update(p1,
              IF location # "" THEN Entry("signal.location.query", location) ELSE EmptyParams)
    IN SendParams(key, p2)

get_demographic_insights_finish(entity_or_tag, response) ==
    ErrorOrFormat(response, _format_demographic_response(response, entity_or_tag),
                  "Error getting demographic insights: ")

get_location_heatmap_start(location, interest_type, key) ==
    LET t == Lower(interest_type)
        p0 == Put(Entry("filter.type", "urn:heatmap"),
                  "filter.location.query", location)
        p1 == Update(p0,
              IF Contains(t, "restaurant")
                  THEN Entry("signal.interests.tags", "urn:tag:genre:place:restaurant")
              ELSE IF Contains(t, "entertainment")
                  THEN Entry("signal.interests.tags", "urn:tag:genre:place:entertainment")
              ELSE IF Contains(t, "bar") \/ Contains(t, "nightlife")
                  THEN Entry("signal.interests.tags", "urn:tag:genre:place:bar")
              ELSE EmptyParams)
    IN SendParams(key, p1)

get_location_heatmap_finish(location, interest_type, response) ==
    ErrorOrFormat(response, _format_heatmap_response(response, location, interest_type),
                  "Error generating heatmap: ")

analyze_taste_profile_start(query, location, key) ==
    LET q == Lower(query)
        p0 == Entry("filter.type", "urn:tag")
        p1 == Update(p0,
              IF AnyIn(q, {"movie", "film", "media"})
                  THEN Put(Entry("filter.tag.types", "urn:tag:keyword:media"),
                           "filter.parents.types", "urn:entity:movie,urn:entity:tv_show")
              ELSE IF AnyIn(q, {"restaurant", "place", "venue"})
                  THEN Put(Entry("filter.tag.types", "urn:tag:genre:place"),
                           "filter.parents.types", "urn:entity:place")
              ELSE EmptyParams)
        p2 == Update(p1,
              IF location # "" THEN Entry("signal.location.query", location) ELSE EmptyParams)
    IN SendParams(key, p2)

analyze_taste_profile_finish(query, response) ==
    ErrorOrFormat(response, _format_taste_analysis_response(response, query),
                  "Error analyzing taste profile: ")

\* The extracted parameters reported as the final parameter set.
debug_query_analysis_entity_params(query) ==
    LET render(params, ext) ==
            IF ext.raised THEN Text("Error analyzing query: " \o ext.error)
            ELSE [raised |-> FALSE, text |-> "Query Analysis Debug",
                  data |-> [use_case |-> params.use_case, entity_type |-> ext.entity_type,
                            entity_params |-> ext.params, qloo_params |-> ext.params]]
        classified_as(params) ==
            render(params, _determine_entity_and_comprehensive_params(params.query_lower))
    IN classified_as(classify_user_query(query))
\* debug_query_analysis has no await: it classifies, extracts, builds with
\* "friends" and renders what it found.
debug_query_analysis(query) ==
    LET render(params, ext, b) ==
            IF ext.raised THEN Text("Error analyzing query: " \o ext.error)
            ELSE IF b.raised THEN Text("Error analyzing query: " \o b.error)
            ELSE [raised |-> FALSE, text |-> "Query Analysis Debug",
                  data |-> [use_case |-> params.use_case, entity_type |-> ext.entity_type,
                            entity_params |-> ext.params, qloo_params |-> b.params]]
        classified_as(params) ==
            render(params, _determine_entity_and_comprehensive_params(params.query_lower),
                   build_qloo_parameters(params.use_case, params, "friends"))
    IN classified_as(classify_user_query(query))

\* analyze_cultural_moment builds its query and delegates.
cultural_query(location) == "cultural analysis of " \o location
analyze_cultural_moment_start(location, social_context, key) ==
    get_qloo_recommendations_start(cultural_query(location), social_context, key)

(***************************************************************************)
(* Inputs                                                                  *)
(***************************************************************************)

\* Query texts: a base phrase (the documented example queries and phrases
\* that reach each use case and each branch of the cascade) followed by up
\* to MaxExtra further words.
MaxExtra == 1
BasePhrases ==
    {"",
     "Find trending indie rock musicians with high popularity on Spotify",
     "Classic family-friendly comedies",
     "Recent Netflix series that ended in 2023",
     "Popular retail chains",
     "Bestselling novels published after 2020",
     "Find expensive Japanese restaurants open on Sunday in Tokyo",
     "Famous female directors born after 1970 trending on Instagram",
     "Top trending true crime podcasts",
     "Trending indie RPG games on PC with high ratings",
     "Popular action movies from 2020-2023 rated R",
     "actor born in 1985",
     "heatmap of jazz bars",
     "audience for horror",
     "regional food",
     "movies by a famous director",
     "trending in Paris",
     "taste profile",
     "rock pop jazz folk country classical rap edm painter sculptor photographer",
     "classic movies from 2005",
     "popular famous niche emerging indie hidden gem"}
Vocab ==
    {"musician", "retail", "movie", "director", "netflix", "popular", "trending", "recent",
     "ended", "in Tokyo", "heatmap", "audience", "born in 1990"}
AddWord(b, w) == IF b = "" THEN w ELSE b \o " " \o w
RECURSIVE Extend(_, _)
Extend(bases, k) ==
    IF k = 0 THEN bases
    ELSE bases \cup Extend({AddWord(b, w) : b \in bases, w \in Vocab}, k - 1)
Queries == Extend(BasePhrases, MaxExtra)

\* Arguments the tool calls are made with.
ApiKeys == {"", "test-key"}
ToolQueries ==
    {"",
     "Find trending indie rock musicians with high popularity on Spotify",
     "Classic family-friendly comedies",
     "Popular retail chains",
     "Find expensive Japanese restaurants open on Sunday in Tokyo",
     "actor born in 1985",
     "Recent Netflix series that ended in 2023",
     "heatmap of jazz bars in Tokyo",
     "audience for horror movies",
     "trending in Paris",
     "taste profile of restaurants"}
ToolContexts == SocialContextValues \cup {"banana", "", "FRIENDS", "Family"}
ToolLocations == {"", "Tokyo", "New York"}
ToolInterests == {"restaurants", "entertainment", "Nightlife", "parks"}

(***************************************************************************)
(* State                                                                   *)
(***************************************************************************)

VARIABLE api_key         \* QLOO_API_KEY of the process environment ("" when unset)
VARIABLE pc              \* "idle", "awaiting" (suspended on the GET) or "returned"
VARIABLE call            \* the tool invocation being served and its arguments
VARIABLE frame           \* the invocation's locals kept across the await
VARIABLE sent            \* the GET requests issued during the invocation
VARIABLE http            \* outcome of the invocation's GET ("none" before it)
VARIABLE response        \* what make_qloo_request returned to the tool
VARIABLE result          \* the string the tool returned
VARIABLE text            \* function-level run: the query text given
VARIABLE stage           \* function-level run: "off", "input", "classified", "extracted", "built"
VARIABLE classified      \* function-level run: what classify_user_query returned
VARIABLE extracted       \* function-level run: what the extractor returned or raised
VARIABLE fn_context      \* function-level run: the context build_qloo_parameters was given
VARIABLE built           \* function-level run: what build_qloo_parameters returned or raised
VARIABLE tasks           \* concurrent run: each invocation's position, arguments and outcome
VARIABLE locals          \* concurrent run: the coroutine frames, one per invocation
VARIABLE validation      \* tag validation: candidates, trials made so far, surviving tags, result
VARIABLE synthesis       \* fallback tag synthesis: the search terms given and the tags derived

tool_vars == <<api_key, pc, call, frame, sent, http, response, result>>
fn_vars == <<text, stage, classified, extracted, fn_context, built>>
conc_vars == <<tasks, locals>>
tag_vars == <<validation, synthesis>>
vars == <<api_key, pc, call, frame, sent, http, response, result,
          text, stage, classified, extracted, fn_context, built, tasks, locals,
          validation, synthesis>>

Call(tool, query, context, location, interest_type) ==
    [tool |-> tool, query |-> query, social_context |-> context,
     location |-> location, interest_type |-> interest_type]
NoCall == Call("none", "", "", "", "")

ToolsIdle ==
    /\ pc = "idle"
    /\ call = NoCall
    /\ frame = NoFrame
    /\ sent = <<>>
    /\ http = "none"
    /\ response = NoResponse
    /\ result = NoResult
FnOff ==
    /\ text = ""
    /\ stage = "off"
    /\ classified = NoParams
    /\ extracted = Returned("", EmptyParams)
    /\ fn_context = ""
    /\ built = Built(EmptyParams)

\* Invocations the event loop may hold at once in the concurrent run.
NTasks == 2
TaskIds == 1..NTasks
Task(pos, c, requests, outcome, resp, res) ==
    [pc |-> pos, call |-> c, sent |-> requests, http |-> outcome, response |-> resp,
     result |-> res]
NoTask == Task("idle", NoCall, <<>>, "none", NoResponse, NoResult)
ConcOff ==
    /\ tasks = [t \in TaskIds |-> NoTask]
    /\ locals = [t \in TaskIds |-> NoFrame]

\* The trial query of one candidate: the tag as the sole filter, the location
\* signal if a location was given, one result asked for.
trial_params(tag, location) ==
    Update(Put(Entry("filter.tags", tag), "take", "1"),
           IF location # "" THEN Entry("signal.location.query", location) ELSE EmptyParams)
\* validate_tags at a suspension or at its return: the trials answered so
\* far, the tags kept, and the trial query in flight.
Validation(pos, candidates, location, trials, surviving, res) ==
    [pc |-> pos, candidates |-> candidates, location |-> location, trials |-> trials,
     surviving |-> surviving, result |-> res,
     trial |-> IF pos = "probing" THEN trial_params(candidates[Len(trials) + 1], location)
               ELSE EmptyParams]
Synthesis(pos, terms, tags) == [pc |-> pos, search_terms |-> terms, tags |-> tags]
NoSynthesis == Synthesis("off", "", <<>>)
TagsOff ==
    /\ validation = Validation("off", <<>>, "", <<>>, <<>>, <<>>)
    /\ synthesis = NoSynthesis

\* The server after start-up: no invocation yet, the credential as the
\* environment gave it.
Init ==
    /\ api_key \in ApiKeys
    /\ ToolsIdle
    /\ FnOff
    /\ ConcOff
    /\ TagsOff

\* A direct run of the pure functions on one query text.
InitExtract ==
    /\ api_key = ""
    /\ ToolsIdle
    /\ text \in Queries
    /\ stage = "input"
    /\ classified = NoParams
    /\ extracted = Returned("", EmptyParams)
    /\ fn_context = ""
    /\ built = Built(EmptyParams)
    /\ ConcOff
    /\ TagsOff

(***************************************************************************)
(* Tool invocations                                                        *)
(***************************************************************************)

\* The state a tool leaves when it suspends on its GET or returns.
Start(c, step) ==
    /\ pc = "idle"
    /\ pc' = IF step.awaiting THEN "awaiting" ELSE "returned"
    /\ call' = c
    /\ frame' = step.frame
    /\ sent' = IF step.awaiting THEN <<step.request>> ELSE <<>>
    /\ http' = "none"
    /\ response' = step.response
    /\ result' = step.result
    /\ UNCHANGED <<api_key, fn_vars, conc_vars, tag_vars>>

Invoke_get_qloo_recommendations ==
    \E q \in ToolQueries, sc \in ToolContexts :
        Start(Call("get_qloo_recommendations", q, sc, "", ""),
              get_qloo_recommendations_start(q, sc, api_key))

Invoke_get_demographic_insights ==
    \E e \in ToolQueries, loc \in ToolLocations :
        Start(Call("get_demographic_insights", e, "", loc, ""),
              get_demographic_insights_start(e, loc, api_key))

Invoke_get_location_heatmap ==
    \E loc \in ToolLocations, t \in ToolInterests :
        Start(Call("get_location_heatmap", "", "", loc, t),
              get_location_heatmap_start(loc, t, api_key))

Invoke_debug_query_analysis ==
    \E q \in ToolQueries :
        Start(Call("debug_query_analysis", q, "", "", ""),
              Return(debug_query_analysis(q), NoResponse, NoFrame))

Invoke_analyze_taste_profile ==
    \E q \in ToolQueries, loc \in ToolLocations :
        Start(Call("analyze_taste_profile", q, "", loc, ""),
              analyze_taste_profile_start(q, loc, api_key))

Invoke_analyze_cultural_moment ==
    \E loc \in ToolLocations, sc \in ToolContexts :
        Start(Call("analyze_cultural_moment", cultural_query(loc), sc, loc, ""),
              analyze_cultural_moment_start(loc, sc, api_key))

\* The rest of the suspended tool, run with the value make_qloo_request
\* returns for the GET's outcome.
Finish(c, f, r) ==
    CASE c.tool \in {"get_qloo_recommendations", "analyze_cultural_moment"} ->
             get_qloo_recommendations_finish(f, c.social_context, r)
      [] c.tool = "get_demographic_insights" -> get_demographic_insights_finish(c.query, r)
      [] c.tool = "get_location_heatmap" ->
             get_location_heatmap_finish(c.location, c.interest_type, r)
      [] c.tool = "analyze_taste_profile" -> analyze_taste_profile_finish(c.query, r)

\* The GET fails (transport error, timeout, non-2xx status, undecodable body).
HttpFail ==
    /\ pc = "awaiting"
    /\ \E outcome \in HttpFailures :
        LET r == make_qloo_request_finish(outcome, "none")
        IN /\ http' = outcome
           /\ sent' = client_get_calls(sent, outcome)
           /\ response' = r
           /\ result' = Finish(call, frame, r)
    /\ pc' = "returned"
    /\ UNCHANGED <<api_key, call, frame, fn_vars, conc_vars, tag_vars>>

\* The GET succeeds with a 2xx status and a decodable JSON body.
HttpOk ==
    /\ pc = "awaiting"
    /\ \E shape \in BodyShapes :
        LET r == make_qloo_request_finish("ok", shape)
        IN /\ http' = "ok"
           /\ sent' = client_get_calls(sent, "ok")
           /\ response' = r
           /\ result' = Finish(call, frame, r)
    /\ pc' = "returned"
    /\ UNCHANGED <<api_key, call, frame, fn_vars, conc_vars, tag_vars>>

\* The caller receives the returned string; the invocation's locals are
\* gone and the server waits for the next call.
Deliver ==
    /\ pc = "returned"
    /\ pc' = "idle"
    /\ call' = NoCall
    /\ frame' = NoFrame
    /\ sent' = <<>>
    /\ http' = "none"
    /\ response' = NoResponse
    /\ result' = NoResult
    /\ UNCHANGED <<api_key, fn_vars, conc_vars, tag_vars>>

Next ==
    \/ Invoke_get_qloo_recommendations
    \/ Invoke_get_demographic_insights
    \/ Invoke_get_location_heatmap
    \/ Invoke_debug_query_analysis
    \/ Invoke_analyze_taste_profile
    \/ Invoke_analyze_cultural_moment
    \/ HttpFail
    \/ HttpOk
    \/ Deliver

Spec == Init /\ [][Next]_vars

\* The GET is awaited with timeout=30.0: a suspended invocation is resumed,
\* with a response or with the exception of the failure.
SpecLive == Spec /\ WF_vars(HttpFail \/ HttpOk)

(***************************************************************************)
(* Function-level runs: classify, extract, build on one query text         *)
(***************************************************************************)

FnContexts == {"friends", "business", "banana"}

Classify ==
    /\ stage = "input"
    /\ classified' = classify_user_query(text)
    /\ stage' = "classified"
    /\ UNCHANGED <<tool_vars, conc_vars, tag_vars, text, extracted, fn_context, built>>

Extract ==
    /\ stage = "classified"
    /\ extracted' = _determine_entity_and_comprehensive_params(classified.query_lower)
    /\ stage' = "extracted"
    /\ UNCHANGED <<tool_vars, conc_vars, tag_vars, text, classified, fn_context, built>>

Build ==
    /\ stage = "extracted"
    /\ \E sc \in FnContexts :
        /\ fn_context' = sc
        /\ built' = build_qloo_parameters(classified.use_case, classified, sc)
    /\ stage' = "built"
    /\ UNCHANGED <<tool_vars, conc_vars, tag_vars, text, classified, extracted>>

NextExtract == Classify \/ Extract \/ Build

SpecExtract == InitExtract /\ [][NextExtract]_vars

(***************************************************************************)
(* Concurrent invocations: the event loop runs each tool coroutine to its  *)
(* await, and resumes the suspended ones in any order                      *)
(***************************************************************************)

\* The invocations the concurrent run draws from, and the outcomes of
\* their GETs.
ConcCalls ==
    {Call("get_qloo_recommendations", "trending in Paris", "friends", "", ""),
     Call("get_qloo_recommendations", "actor born in 1985", "family", "", ""),
     Call("get_location_heatmap", "", "", "Tokyo", "Nightlife"),
     Call("analyze_taste_profile", "taste profile of restaurants", "", "New York", ""),
     Call("analyze_cultural_moment", cultural_query("Tokyo"), "banana", "Tokyo", "")}
ConcOutcomes == {<<"timeout", "none">>, <<"ok", "full">>, <<"ok", "results_array">>}

\* The tool coroutine the server starts for a call, run to its await or to
\* its return.
StartOf(c, key) ==
    CASE c.tool = "get_qloo_recommendations" ->
             get_qloo_recommendations_start(c.query, c.social_context, key)
      [] c.tool = "get_demographic_insights" ->
             get_demographic_insights_start(c.query, c.location, key)
      [] c.tool = "get_location_heatmap" ->
             get_location_heatmap_start(c.location, c.interest_type, key)
      [] c.tool = "analyze_taste_profile" -> analyze_taste_profile_start(c.query, c.location, key)
      [] c.tool = "analyze_cultural_moment" ->
             analyze_cultural_moment_start(c.location, c.social_context, key)
      [] c.tool = "debug_query_analysis" ->
             Return(debug_query_analysis(c.query), NoResponse, NoFrame)

\* One frame for all invocations, as if the tools kept their parameters in
\* a module-level variable.
LocalsOf_module_level(t) == 1
\* Where invocation t keeps use_case, params and qloo_params across its
\* await: in the frame of its own coroutine.
LocalsOf(t) == t

TaskInvoke ==
    \E t \in TaskIds, c \in ConcCalls :
        LET started(step) ==
                /\ tasks' = [tasks EXCEPT ![t] =
                       Task(IF step.awaiting THEN "awaiting" ELSE "returned", c,
                            IF step.awaiting THEN <<step.request>> ELSE <<>>,
                            "none", step.response, step.result)]
                /\ locals' = [locals EXCEPT ![LocalsOf(t)] = step.frame]
        IN /\ tasks[t].pc = "idle"
           /\ started(StartOf(c, api_key))
           /\ UNCHANGED <<tool_vars, fn_vars, tag_vars>>

TaskResume ==
    \E t \in TaskIds, o \in ConcOutcomes :
        LET resumed(r) ==
                tasks' = [tasks EXCEPT ![t] =
                    Task("returned", tasks[t].call, client_get_calls(tasks[t].sent, o[1]),
                         o[1], r, Finish(tasks[t].call, locals[LocalsOf(t)], r))]
        IN /\ tasks[t].pc = "awaiting"
           /\ resumed(make_qloo_request_finish(o[1], o[2]))
           /\ UNCHANGED <<tool_vars, fn_vars, locals, tag_vars>>

NextConcurrent == TaskInvoke \/ TaskResume

SpecConcurrent == Init /\ [][NextConcurrent]_vars

(***************************************************************************)
(* Tag validation: candidate tags are probed one at a time with a trial     *)
(* query, and the tags whose trial returned data are kept                   *)
(***************************************************************************)

\* Candidate lists are drawn from TagPool, up to MaxCandidates long.
MaxCandidates == 6
TagPool == {"urn:tag:cuisine:japanese", "urn:tag:genre:place:bar"}
CandidateLists == UNION {[1..n -> TagPool] : n \in 0..MaxCandidates}
TrialLocations == {"", "Tokyo"}

\* Only a prefix of the candidates is probed.
ProbeLimit == 5
ProbeCount(candidates) == IF Len(candidates) < ProbeLimit THEN Len(candidates) ELSE ProbeLimit

\* A trial's outcome: at least one entity, no entity, or an error result.
TrialOutcomes == {"entity", "empty", "error"}
survives(outcome) == outcome = "entity"

\* What validation returns with nothing to fall back on.
validated_or_original_no_fallback(candidates, surviving) == surviving
\* What validation returns: the surviving tags, or the original list when
\* none survived.
validated_or_original(candidates, surviving) ==
    IF surviving = <<>> THEN candidates ELSE surviving

\* validate_tags is called: with no candidate it returns at once, otherwise
\* it suspends on the first trial.
ValidateTags ==
    /\ validation.pc = "off"
    /\ \E candidates \in CandidateLists, location \in TrialLocations :
         validation' =
            IF ProbeCount(candidates) = 0
            THEN Validation("done", candidates, location, <<>>, <<>>,
                            validated_or_original(candidates, <<>>))
            ELSE Validation("probing", candidates, location, <<>>, <<>>, <<>>)
    /\ UNCHANGED <<tool_vars, fn_vars, conc_vars, synthesis>>

\* The pending trial completes; the tag is kept if it survived, and either
\* the next trial is issued or, after the last one, the result is returned.
TrialCompletes ==
    /\ validation.pc = "probing"
    /\ \E outcome \in TrialOutcomes :
         LET v == validation
             i == Len(v.trials) + 1
             surviving == IF survives(outcome) THEN Append(v.surviving, v.candidates[i])
                          ELSE v.surviving
         IN validation' =
                IF i = ProbeCount(v.candidates)
                THEN Validation("done", v.candidates, v.location, Append(v.trials, outcome),
                                surviving, validated_or_original(v.candidates, surviving))
                ELSE Validation("probing", v.candidates, v.location,
                                Append(v.trials, outcome), surviving, <<>>)
    /\ UNCHANGED <<tool_vars, fn_vars, conc_vars, synthesis>>

NextValidate == ValidateTags \/ TrialCompletes

\* Validation runs with the credential present.
InitValidate == Init /\ api_key = "test-key"

SpecValidate == InitValidate /\ [][NextValidate]_vars

(***************************************************************************)
(* Fallback tag synthesis: one tag per search term, derived without I/O     *)
(***************************************************************************)

\* search_terms.split(","): the terms of a comma-separated string.
RECURSIVE SplitComma(_)
SplitComma(s) ==
    IF ~Contains(s, ",") THEN <<s>>
    ELSE LET i == CHOOSE j \in 1..Len(s) :
                      Char(s, j) = "," /\ \A k \in 1..(j - 1) : Char(s, k) # ","
         IN <<SubSeq(s, 1, i - 1)>> \o SplitComma(SubSeq(s, i + 1, Len(s)))

\* A term cleaned: lowercased, whitespace and hyphens replaced with
\* underscores, ampersands replaced with "and".
CleanChar(c) ==
    IF IsSpace(c) \/ c = "-" THEN "_"
    ELSE IF c = "&" THEN "and"
    ELSE LowerChar(c)
RECURSIVE clean_term(_)
clean_term(term) ==
    IF Len(term) = 0 THEN "" ELSE CleanChar(Char(term, 1)) \o clean_term(Tail(term))

\* The ordered heuristics: cuisine or food terms, then venue types, then
\* the generic keyword tag.
food_words == {"food", "cuisine", "sushi", "pizza", "italian", "korean"}
venue_words == {"restaurant", "bar", "cafe", "hotel", "museum", "park", "theater"}
fallback_tag(term) ==
    IF AnyIn(Lower(term), food_words) THEN "cuisine:" \o clean_term(term)
    ELSE IF AnyIn(Lower(term), venue_words) THEN "genre:place:" \o clean_term(term)
    ELSE "keyword:place:" \o clean_term(term)

\* Duplicates removed keeping the last occurrence instead of the first.
RECURSIVE unique_in_order_keep_last(_)
unique_in_order_keep_last(tags) ==
    IF tags = <<>> THEN <<>>
    ELSE IF \E j \in 2..Len(tags) : tags[j] = tags[1]
         THEN unique_in_order_keep_last(Tail(tags))
         ELSE <<tags[1]>> \o unique_in_order_keep_last(Tail(tags))
\* Duplicates removed, first-seen order kept.
RECURSIVE unique_in_order(_)
unique_in_order(tags) ==
    IF tags = <<>> THEN <<>>
    ELSE LET rest == unique_in_order(SubSeq(tags, 1, Len(tags) - 1))
             last == tags[Len(tags)]
         IN IF \E j \in 1..Len(rest) : rest[j] = last THEN rest ELSE Append(rest, last)

synthesize_fallback_tags(search_terms) ==
    LET terms == SplitComma(search_terms)
    IN unique_in_order([i \in 1..Len(terms) |-> fallback_tag(terms[i])])

\* Search-term strings: up to MaxTerms terms of TermPool joined by commas.
MaxTerms == 3
TermPool == {"Sushi Bar", "sushi-bar", "R&B", "Rooftop bars", "jazz"}
SearchTerms == {JoinComma(l) : l \in UNION {[1..n -> TermPool] : n \in 1..MaxTerms}}

\* A direct run of the synthesis on one search-term string.
InitSynthesize ==
    /\ api_key = ""
    /\ ToolsIdle
    /\ FnOff
    /\ ConcOff
    /\ validation = Validation("off", <<>>, "", <<>>, <<>>, <<>>)
    /\ synthesis \in {Synthesis("input", t, <<>>) : t \in SearchTerms}

Synthesize ==
    /\ synthesis.pc = "input"
    /\ synthesis' = Synthesis("done", synthesis.search_terms,
                              synthesize_fallback_tags(synthesis.search_terms))
    /\ UNCHANGED <<tool_vars, fn_vars, conc_vars, validation>>

SpecSynthesize == InitSynthesize /\ [][Synthesize]_vars

(***************************************************************************)
(* Properties                                                              *)
(***************************************************************************)

\* The function-level run has just classified its text, or just extracted
\* from it.  Every run passes through both stages, and no later step changes
\* text, classified or extracted.
Classified == stage = "classified"
Extracted == stage = "extracted"
text_lower == Lower(text)

UseCasePriority ==
    <<HEATMAPS, DEMOGRAPHIC_INSIGHTS, TASTE_ANALYSIS, LOCATION_BASED_INSIGHTS,
      RECOMMENDATION_INSIGHTS>>
\* The member of a non-empty set of use cases that comes first in the order.
TopPriority(M) ==
    UseCasePriority[CHOOSE i \in 1..5 :
        UseCasePriority[i] \in M /\ \A j \in 1..(i - 1) : UseCasePriority[j] \notin M]
\* The use cases whose pattern group matches q; location-based counts only
\* if needs_location is off or a location was extracted.
MatchingUseCases(q, location, needs_location) ==
    {u \in QlooUseCase :
        \/ (u = HEATMAPS /\ heatmap_patterns(q))
        \/ (u = DEMOGRAPHIC_INSIGHTS /\ demographic_patterns(q))
        \/ (u = TASTE_ANALYSIS /\ taste_patterns(q))
        \/ (u = LOCATION_BASED_INSIGHTS /\ location_based_patterns(q)
                /\ (needs_location => location # ""))
        \/ (u = RECOMMENDATION_INSIGHTS /\ recommendation_patterns(q))}

\* C1 as stated: the classifier returns one use case, and when the pattern
\* groups of several use cases match, the first of them in the order heatmap,
\* demographic, taste, location-based, recommendation is returned.
C1_PriorityByPatternsOnly ==
    Classified =>
        LET M == MatchingUseCases(text_lower, classified.location, FALSE)
        IN /\ classified.use_case \in QlooUseCase
           /\ Cardinality(M) >= 2 => classified.use_case = TopPriority(M)

\* C1 amended: the classifier returns one use case, and among the use cases
\* whose pattern group matches (location-based counting only when a non-empty
\* location was extracted) the first in the order heatmap, demographic, taste,
\* location-based, recommendation is returned.
C1_PriorityOrder ==
    Classified =>
        LET M == MatchingUseCases(text_lower, classified.location, TRUE)
        IN /\ classified.use_case \in QlooUseCase
           /\ M # {} => classified.use_case = TopPriority(M)

C1_Witness ==
    /\ stage = "classified"
    /\ heatmap_patterns(text_lower)
    /\ demographic_patterns(text_lower)
    /\ classified.use_case = HEATMAPS

\* C2: a query with both a Person trigger word and a Movie trigger word is
\* classified as Person, because Person is tested before Movie.
C2_PersonBeforeMovie ==
    (Extracted /\ AnyIn(text_lower, person_words) /\ AnyIn(text_lower, movie_words)) =>
        (~extracted.raised /\ extracted.entity_type = PERSON)

AllTriggerWords ==
    artist_words \cup brand_words \cup movie_words \cup person_words
    \cup tv_show_words \cup podcast_words \cup video_game_words

\* C3: for every query text the extractor returns exactly one of the ten
\* entity types, and it returns Place exactly when the text contains no
\* trigger word of another type.
C3_OneEntityPlaceByDefault ==
    Extracted =>
        /\ ~extracted.raised
        /\ extracted.entity_type \in EntityTypes
        /\ extracted.entity_type = PLACE <=> ~AnyIn(text_lower, AllTriggerWords)

\* The trigger lists in the order the cascade tests them, with the type each
\* list stands for.
CascadeTypes ==
    <<[words |-> artist_words, urn |-> ARTIST],
      [words |-> brand_words, urn |-> BRAND],
      [words |-> movie_words, urn |-> MOVIE],
      [words |-> person_words, urn |-> PERSON],
      [words |-> tv_show_words, urn |-> TV_SHOW],
      [words |-> podcast_words, urn |-> PODCAST],
      [words |-> video_game_words, urn |-> VIDEO_GAME]>>
FirstTriggered(q, i) ==
    /\ AnyIn(q, CascadeTypes[i].words)
    /\ \A j \in 1..(i - 1) : ~AnyIn(q, CascadeTypes[j].words)
ParamIs(p, k, v) == k \in DOMAIN p /\ p[k] = v

\* C4: a query with a trigger word of type T and none of a type tested
\* earlier is classified as T (entity type and filter.type are T's URN); a TV
\* query carries release_year.min=2020 for "recent" and finale_year.max=2023
\* for "ended", a brand query popularity.min=0.7 for "popular".
C4_TriggerYieldsItsType ==
    Extracted =>
        \A i \in 1..Len(CascadeTypes) :
            FirstTriggered(text_lower, i) =>
                /\ ~extracted.raised
                /\ extracted.entity_type = CascadeTypes[i].urn
                /\ ParamIs(extracted.params, "filter.type", CascadeTypes[i].urn)
                /\ (CascadeTypes[i].urn = TV_SHOW /\ Contains(text_lower, "recent")) =>
                       ParamIs(extracted.params, "filter.release_year.min", "2020")
                /\ (CascadeTypes[i].urn = TV_SHOW /\ Contains(text_lower, "ended")) =>
                       ParamIs(extracted.params, "filter.finale_year.max", "2023")
                /\ (CascadeTypes[i].urn = BRAND /\ Contains(text_lower, "popular")) =>
                       ParamIs(extracted.params, "filter.popularity.min", "0.7")

\* C5: each of the ten entity types is returned by the extractor for at
\* least one query text.
C5_AllTenTypesReturned ==
    Extracted =>
        \A t \in EntityTypes :
            \E q \in Queries :
                LET e == _determine_entity_and_comprehensive_params(Lower(q))
                IN ~e.raised /\ e.entity_type = t

HasArtistScenarioWords(q) ==
    /\ AnyIn(q, artist_words)
    /\ Contains(q, "trending") /\ Contains(q, "popular")
    /\ Contains(q, "rock") /\ Contains(q, "spotify")

\* C6: a query with an Artist trigger, "trending", "popular", "rock" and
\* "spotify" yields Artist with bias.trends=high, a filter.popularity.min,
\* the rock tag in filter.tags and filter.external.exists=spotify.
C6_ArtistScenario ==
    (Extracted /\ HasArtistScenarioWords(text_lower)) =>
        /\ ~extracted.raised
        /\ extracted.entity_type = ARTIST
        /\ ParamIs(extracted.params, "bias.trends", "high")
        /\ "filter.popularity.min" \in DOMAIN extracted.params
        /\ "filter.tags" \in DOMAIN extracted.params
        /\ Contains(extracted.params["filter.tags"], "urn:tag:genre:music:rock")
        /\ ParamIs(extracted.params, "filter.external.exists", "spotify")

C6_Witness ==
    /\ stage = "extracted"
    /\ text = "Find trending indie rock musicians with high popularity on Spotify"
    /\ extracted.entity_type = ARTIST
    /\ ParamIs(extracted.params, "filter.external.exists", "spotify")

\* C7: "Classic family-friendly comedies" yields Movie with a
\* filter.release_year.max, filter.content_rating G,PG and the comedy tag.
C7_ClassicFamilyComedies ==
    (Extracted /\ text = "Classic family-friendly comedies") =>
        /\ ~extracted.raised
        /\ extracted.entity_type = MOVIE
        /\ "filter.release_year.max" \in DOMAIN extracted.params
        /\ ParamIs(extracted.params, "filter.content_rating", "G,PG")
        /\ "filter.tags" \in DOMAIN extracted.params
        /\ Contains(extracted.params["filter.tags"], "urn:tag:genre:media:comedy")

ContextTools == {"get_qloo_recommendations", "analyze_cultural_moment"}
ListsAllContexts(t) == \A v \in SocialContextValues : Contains(t, v)

MissingKeyText == "Error: QLOO_API_KEY environment variable not set"
ErrorText(t) == At(t, 1, "Error") \/ At(t, 1, "Invalid social context")

\* C9 as stated: with the credential absent every tool call, the debug tool
\* included, returns an error and attempts no request.
C9_EveryToolReturnsError ==
    (api_key = "" /\ pc # "idle") =>
        /\ pc = "returned"
        /\ sent = <<>>
        /\ ErrorText(result.text)

\* C9 amended: with the credential absent no tool call attempts a request;
\* the five tools that call the API return an error string (the missing
\* credential error unless the context or the query was rejected first), and
\* debug_query_analysis, which never calls the API, returns its analysis
\* instead of the missing credential error.
C9_NoCredentialNoRequest ==
    (api_key = "" /\ pc # "idle") =>
        /\ pc = "returned"
        /\ sent = <<>>
        /\ call.tool # "debug_query_analysis" =>
              /\ ErrorText(result.text)
              /\ \/ result.text = MissingKeyText
                 \/ (call.tool \in ContextTools /\ InvalidContext(call.social_context))
                 \/ (call.tool \in ContextTools /\ At(result.text, 1, "Error processing query: "))
        /\ call.tool = "debug_query_analysis" => result.text # MissingKeyText

C9_Witness ==
    /\ api_key = ""
    /\ pc = "returned"
    /\ call.tool = "get_location_heatmap"
    /\ result.text = MissingKeyText
    /\ sent = <<>>

\* C10: whatever way the GET fails (transport error, timeout, non-2xx
\* status, undecodable body), make_qloo_request returns a dict with an
\* "error" key and the tool returns that error as a string, not a formatted
\* result.
C10_FailuresBecomeErrorDicts ==
    (pc = "returned" /\ http \in HttpFailures) =>
        /\ response.type = "dict"
        /\ response.has_error
        /\ response.error = "API request failed: " \o FailureText(http)
        /\ result = Text("Error: " \o response.error)

C10_Witness ==
    /\ pc = "returned"
    /\ http = "decode_error"
    /\ call.tool = "get_qloo_recommendations"
    /\ Len(sent) = 1
    /\ result.text = "Error: API request failed: Expecting value"

\* C11: a tool invocation issues at most one GET, whatever the outcome: an
\* invocation whose GET failed has returned with exactly one request issued,
\* the one it built before the await, and none is issued after the failure.
C11_AtMostOneRequest ==
    /\ Len(sent) <= 1
    /\ pc = "awaiting" => Len(sent) = 1
    /\ http # "none" =>
          /\ pc = "returned"
          /\ sent = <<Request(insights_endpoint, frame.qloo_params)>>

C11_Witness ==
    /\ pc = "returned"
    /\ http = "timeout"
    /\ call.tool = "get_location_heatmap"
    /\ Len(sent) = 1
    /\ result.text = "Error: API request failed: timed out"

HigherThanLocationBased(q) ==
    heatmap_patterns(q) \/ demographic_patterns(q) \/ taste_patterns(q)

\* C12: the classifier returns location-based only with a non-empty extracted
\* location; a query whose location-based patterns match while the extracted
\* location is empty, and which matches no heatmap, demographic or taste
\* pattern, is classified as recommendation.
C12_LocationBasedNeedsLocation ==
    Classified =>
        /\ classified.use_case = LOCATION_BASED_INSIGHTS => classified.location # ""
        /\ (location_based_patterns(text_lower) /\ classified.location = ""
                /\ ~HigherThanLocationBased(text_lower)) =>
               classified.use_case = RECOMMENDATION_INSIGHTS

C12_Witness ==
    /\ stage = "classified"
    /\ location_based_patterns(text_lower)
    /\ ~HigherThanLocationBased(text_lower)
    /\ classified.location = ""
    /\ classified.use_case = RECOMMENDATION_INSIGHTS

\* C13: the classifier returns a use case and a location for every query
\* text; a query matching none of the heatmap, demographic, taste and
\* location-based groups, also one matching no pattern of any list, is
\* classified as recommendation.
C13_DefaultsToRecommendation ==
    Classified =>
        /\ classified.use_case \in QlooUseCase
        /\ classified.query = text
        /\ (~HigherThanLocationBased(text_lower) /\ ~location_based_patterns(text_lower)) =>
               classified.use_case = RECOMMENDATION_INSIGHTS

C13_Witness ==
    /\ stage = "classified"
    /\ text # ""
    /\ ~HigherThanLocationBased(text_lower)
    /\ ~location_based_patterns(text_lower)
    /\ ~recommendation_patterns(text_lower)
    /\ classified.use_case = RECOMMENDATION_INSIGHTS

\* C14: each of the 8 social contexts has an age value in the context map,
\* and the request get_qloo_recommendations issues for a query classified as
\* recommendation, called with that context, carries that value as
\* signal.demographics.age.
C14_ContextAgeInRequest ==
    /\ \A c \in SocialContextValues : c \in DOMAIN context_age_map
    /\ (pc # "idle" /\ call.tool = "get_qloo_recommendations"
          /\ call.social_context \in SocialContextValues
          /\ frame.use_case = RECOMMENDATION_INSIGHTS /\ sent # <<>>) =>
            ParamIs(sent[1].params, "signal.demographics.age",
                    context_age_map[call.social_context])

C14_Witness ==
    /\ pc = "awaiting"
    /\ call.tool = "get_qloo_recommendations"
    /\ call.social_context = "business"
    /\ frame.use_case = RECOMMENDATION_INSIGHTS
    /\ ParamIs(sent[1].params, "signal.demographics.age", "35_to_44,45_to_54")

\* len(value.split(",")) of a tag list; 0 for a key that is absent.
TagCount(p, k) ==
    IF k \notin DOMAIN p \/ p[k] = "" THEN 0
    ELSE Cardinality({i \in 1..Len(p[k]) : Char(p[k], i) = ","}) + 1

\* C15: every parameter set build_qloo_parameters returns holds at most 10
\* comma-separated tags in filter.tags and at most 10 in
\* signal.interests.tags.
C15_AtMostTenTags ==
    (stage = "built" /\ ~built.raised) =>
        /\ TagCount(built.params, "filter.tags") <= 10
        /\ TagCount(built.params, "signal.interests.tags") <= 10

\* C16: every key of a request sent for a query is a key of the schema of the
\* entity type the request names in filter.type (or a key the use case
\* adds): keys of other types' schemas have been dropped before the request.
C16_SentKeysInSchema ==
    (sent # <<>> /\ call.tool \in ContextTools
        /\ "filter.type" \in DOMAIN sent[1].params
        /\ sent[1].params["filter.type"] \in EntityTypes) =>
        DOMAIN sent[1].params \subseteq
            (EntitySchema(sent[1].params["filter.type"]) \cup UseCaseKeys)

\* What invocation t must have sent and returned, from its own arguments, the
\* credential and its own response alone.
OwnRequests(t) ==
    LET own(step) == IF step.awaiting THEN <<step.request>> ELSE <<>>
    IN own(StartOf(tasks[t].call, api_key))
OwnResult(t) ==
    LET own(step) ==
            IF step.awaiting THEN Finish(tasks[t].call, step.frame, tasks[t].response)
            ELSE step.result
    IN own(StartOf(tasks[t].call, api_key))

\* C17: under every interleaving of invocations at their awaits, the request
\* an invocation issued and the string it returned are the ones its own
\* arguments and its own response determine, whatever the other invocations
\* did in between.
C17_InvocationsIndependent ==
    \A t \in TaskIds :
        /\ tasks[t].pc # "idle" => tasks[t].sent = OwnRequests(t)
        /\ tasks[t].pc = "returned" => tasks[t].result = OwnResult(t)

C17_Witness ==
    /\ tasks[1].pc = "returned" /\ tasks[1].http = "ok"
    /\ tasks[1].call.tool = "get_qloo_recommendations"
    /\ tasks[2].pc = "awaiting"
    /\ tasks[2].call.tool = "get_location_heatmap"
    /\ locals[1] # locals[2]
    /\ tasks[1].result.text = "Recommendations for friends in Paris"

\* C18: every tool invocation ends with a returned string and raises nothing
\* to its caller: a suspended invocation is resumed and returns, and whatever
\* the outcome (formatted result, empty result, upstream or transport error,
\* an exception while classifying or building, a response of an unexpected
\* shape) what it leaves is a non-empty string.
C18_ToolsReturnStrings ==
    /\ [](pc = "returned" => (~result.raised /\ result.text # ""))
    /\ (pc = "awaiting") ~> (pc = "returned")

C18_Witness ==
    /\ pc = "returned"
    /\ call.tool = "get_location_heatmap"
    /\ http = "ok" /\ response.shape = "results_array"
    /\ ~result.raised
    /\ result.text = "Error generating heatmap: 'list' object has no attribute 'get'"

\* The probed candidates whose trial returned at least one entity, in
\* candidate order.
RECURSIVE ProvenTags(_, _, _)
ProvenTags(candidates, trials, i) ==
    IF i > Len(trials) THEN <<>>
    ELSE (IF trials[i] = "entity" THEN <<candidates[i]>> ELSE <<>>)
         \o ProvenTags(candidates, trials, i + 1)

\* C19: validation of a non-empty candidate list never returns an empty
\* list: when every probed candidate failed its trial the original list is
\* returned unchanged, otherwise the candidates whose trial returned at least
\* one entity and no error.
C19_ValidationNeverEmpty ==
    (validation.pc = "done" /\ validation.candidates # <<>>) =>
        LET proven == ProvenTags(validation.candidates, validation.trials, 1)
        IN /\ validation.result # <<>>
           /\ Len(validation.trials) = ProbeCount(validation.candidates)
           /\ proven = <<>> => validation.result = validation.candidates
           /\ proven # <<>> => validation.result = proven

C19_Witness ==
    /\ validation.pc = "done"
    /\ Len(validation.candidates) = 3
    /\ validation.trials = <<"empty", "error", "empty">>
    /\ validation.result = validation.candidates

\* The first position of tag among the tags the terms stand for.
FirstTermOf(terms, tag) ==
    CHOOSE i \in 1..Len(terms) :
        fallback_tag(terms[i]) = tag /\ \A j \in 1..(i - 1) : fallback_tag(terms[j]) # tag

\* C20: for a non-empty comma-separated string of search terms the synthesis
\* returns a non-empty list in which every term has its tag, every tag comes
\* from a term, no tag occurs twice, and the tags stand in the order in which
\* the terms first produce them.
C20_SynthesisTotalOrdered ==
    (synthesis.pc = "done" /\ synthesis.search_terms # "") =>
        LET terms == SplitComma(synthesis.search_terms)
            tags == synthesis.tags
        IN /\ tags # <<>>
           /\ \A i \in 1..Len(terms) : \E j \in 1..Len(tags) : tags[j] = fallback_tag(terms[i])
           /\ \A j \in 1..Len(tags) : \E i \in 1..Len(terms) : tags[j] = fallback_tag(terms[i])
           /\ \A j, k \in 1..Len(tags) : j < k =>
                  /\ tags[j] # tags[k]
                  /\ FirstTermOf(terms, tags[j]) < FirstTermOf(terms, tags[k])

C20_Witness ==
    /\ synthesis.pc = "done"
    /\ synthesis.search_terms = "Sushi Bar,R&B,sushi-bar"
    /\ synthesis.tags = <<"cuisine:sushi_bar", "keyword:place:randb">>

\* The year of the leftmost match of r'born in\s+(19|20)\d{2}'.
BornInYear(q) ==
    LET i == CHOOSE x \in 1..Len(q) :
                 /\ \E n \in 1..Len(q) : At(q, x, "born in") /\ AllSpace(q, x + 7, x + 6 + n)
                                          /\ YearAt(q, x + 7 + n)
                 /\ \A y \in 1..(x - 1) :
                        ~\E n \in 1..Len(q) : At(q, y, "born in") /\ AllSpace(q, y + 7, y + 6 + n)
                                               /\ YearAt(q, y + 7 + n)
        n == CHOOSE m \in 1..Len(q) : AllSpace(q, i + 7, i + 6 + m) /\ YearAt(q, i + 7 + m)
    IN SubSeq(q, i + 7 + n, i + 10 + n)

\* C21: a query that reaches the Person rules and holds "born in" followed by
\* a four-digit year Y is extracted without error with the date-of-birth range
\* Y-01-01 .. Y-12-31, so get_qloo_recommendations, given a valid context and
\* a credential, issues its request instead of returning a processing error.
C21_BornInYearProceeds ==
    (/\ pc # "idle"
     /\ call.tool = "get_qloo_recommendations"
     /\ ~InvalidContext(call.social_context)
     /\ api_key # ""
     /\ FirstTriggered(Lower(call.query), 4)
     /\ born_in_year_match(Lower(call.query))) =>
        /\ Len(sent) = 1
        /\ ParamIs(frame.qloo_params, "filter.date_of_birth.min",
                   BornInYear(Lower(call.query)) \o "-01-01")
        /\ ParamIs(frame.qloo_params, "filter.date_of_birth.max",
                   BornInYear(Lower(call.query)) \o "-12-31")

\* The parameter keys the rules under each `entity_type = ...` assignment of
\* the extractor can set, and the tags those rules can append.
RuleKeys(entity_type) ==
    CASE entity_type = ARTIST ->
             {"bias.trends", "filter.exclude.tags", "filter.external.exists",
             "filter.popularity.max", "filter.popularity.min", "filter.tags", "filter.type"}
      [] entity_type = BRAND ->
             {"bias.trends", "filter.exclude.tags", "filter.external.exists",
             "filter.parents.types", "filter.popularity.max", "filter.popularity.min",
             "filter.tags", "filter.type", "operator.exclude.tags"}
      [] entity_type = BOOK ->
             {"filter.publication_year.min", "filter.type"}
      [] entity_type = MOVIE ->
             {"bias.trends", "filter.content_rating", "filter.external.exists",
             "filter.popularity.max", "filter.popularity.min", "filter.rating.min",
             "filter.release_country", "filter.release_year.max", "filter.release_year.min",
             "filter.tags", "filter.type"}
      [] entity_type = PERSON ->
             {"bias.trends", "filter.date_of_birth.max", "filter.date_of_birth.min",
             "filter.external.exists", "filter.gender", "filter.popularity.max",
             "filter.popularity.min", "filter.tags", "filter.type"}
      [] entity_type = DESTINATION ->
             {"filter.geocode.country_code", "filter.type"}
      [] entity_type = TV_SHOW ->
             {"bias.trends", "filter.content_rating", "filter.finale_year.max",
             "filter.finale_year.min", "filter.latest_known_year.min", "filter.popularity.max",
             "filter.popularity.min", "filter.rating.min", "filter.release_country",
             "filter.release_year.max", "filter.release_year.min", "filter.tags", "filter.type"}
      [] entity_type = PODCAST ->
             {"filter.type"}
      [] entity_type = VIDEO_GAME ->
             {"filter.type"}
      [] entity_type = PLACE ->
             {"filter.address", "filter.external.exists", "filter.external.resy.party_size.min",
             "filter.external.tripadvisor.rating.min", "filter.hotel_class.max",
             "filter.hotel_class.min", "filter.hours", "filter.popularity.max",
             "filter.popularity.min", "filter.price_level.max", "filter.price_level.min",
             "filter.properties.business_rating.min", "filter.references_brand", "filter.tags",
             "filter.type"}
      [] OTHER -> {}
RuleTags(entity_type) ==
    CASE entity_type = ARTIST ->
             {"urn:tag:genre:music:classical", "urn:tag:genre:music:country",
             "urn:tag:genre:music:electronic", "urn:tag:genre:music:folk",
             "urn:tag:genre:music:hip_hop", "urn:tag:genre:music:indie",
             "urn:tag:genre:music:jazz", "urn:tag:genre:music:mainstream",
             "urn:tag:genre:music:pop", "urn:tag:genre:music:rock",
             "urn:tag:medium:visual:painting", "urn:tag:medium:visual:photography",
             "urn:tag:medium:visual:sculpture"}
      [] entity_type = BRAND ->
             {"urn:tag:category:brand:automotive", "urn:tag:category:brand:budget",
             "urn:tag:category:brand:fashion", "urn:tag:category:brand:food",
             "urn:tag:category:brand:luxury", "urn:tag:category:brand:retail",
             "urn:tag:category:brand:sustainable", "urn:tag:category:brand:technology"}
      [] entity_type = BOOK ->
             {}
      [] entity_type = MOVIE ->
             {"urn:tag:genre:media:action", "urn:tag:genre:media:animation",
             "urn:tag:genre:media:comedy", "urn:tag:genre:media:documentary",
             "urn:tag:genre:media:drama", "urn:tag:genre:media:fantasy",
             "urn:tag:genre:media:horror", "urn:tag:genre:media:romance",
             "urn:tag:genre:media:science_fiction", "urn:tag:genre:media:thriller"}
      [] entity_type = PERSON ->
             {"urn:tag:profession:actor", "urn:tag:profession:athlete",
             "urn:tag:profession:author", "urn:tag:profession:director",
             "urn:tag:profession:musician", "urn:tag:profession:politician"}
      [] entity_type = DESTINATION ->
             {}
      [] entity_type = TV_SHOW ->
             {"urn:tag:genre:media:anime", "urn:tag:genre:media:comedy",
             "urn:tag:genre:media:crime", "urn:tag:genre:media:documentary",
             "urn:tag:genre:media:drama", "urn:tag:genre:media:fantasy",
             "urn:tag:genre:media:reality", "urn:tag:genre:media:science_fiction"}
      [] entity_type = PODCAST ->
             {}
      [] entity_type = VIDEO_GAME ->
             {}
      [] entity_type = PLACE ->
             {"urn:tag:cuisine:american", "urn:tag:cuisine:chinese", "urn:tag:cuisine:french",
             "urn:tag:cuisine:indian", "urn:tag:cuisine:italian", "urn:tag:cuisine:japanese",
             "urn:tag:cuisine:korean", "urn:tag:cuisine:mediterranean", "urn:tag:cuisine:mexican",
             "urn:tag:cuisine:thai", "urn:tag:genre:place:bar",
             "urn:tag:genre:place:entertainment", "urn:tag:genre:place:hotel",
             "urn:tag:genre:place:museum", "urn:tag:genre:place:park",
             "urn:tag:genre:place:restaurant", "urn:tag:genre:place:shopping"}
      [] OTHER -> {}

\* C22: what the extractor returns comes from the rules of the returned
\* type: every filter key of the parameter set is one those rules set, and
\* every tag of filter.tags is one those rules append.
C22_RulesOfReturnedType ==
    (Extracted /\ ~extracted.raised) =>
        LET p == extracted.params
            own(k) == k \in RuleKeys(extracted.entity_type)
            tags == IF "filter.tags" \in DOMAIN p THEN SplitComma(p["filter.tags"]) ELSE <<>>
        IN /\ \A k \in DOMAIN p : At(k, 1, "filter.") => own(k)
           /\ \A i \in 1..Len(tags) : tags[i] \in RuleTags(extracted.entity_type)

\* The number a year, a price level or an ISO date stands for (the digits
\* read in order, so that dates of one format compare as they do in time).
RECURSIVE NumberOf(_, _)
NumberOf(s, acc) ==
    IF Len(s) = 0 THEN acc
    ELSE IF IsDigit(Char(s, 1))
         THEN NumberOf(Tail(s), 10 * acc
                  + (CHOOSE d \in 0..9 : Char("0123456789", d + 1) = Char(s, 1)))
         ELSE NumberOf(Tail(s), acc)
RangeKeys == {"filter.release_year", "filter.price_level", "filter.date_of_birth"}

\* C23: when the extractor sets both ends of a numeric range (release year,
\* price level, date of birth), the minimum is at most the maximum.
C23_RangeMinAtMostMax ==
    (Extracted /\ ~extracted.raised) =>
        \A r \in RangeKeys :
            LET p == extracted.params
            IN ((r \o ".min") \in DOMAIN p /\ (r \o ".max") \in DOMAIN p) =>
                   NumberOf(p[r \o ".min"], 0) <= NumberOf(p[r \o ".max"], 0)

\* The parameter set carries the location under one of its two keys.
CarriesLocation(p, location) ==
    ParamIs(p, "filter.location.query", location) \/ ParamIs(p, "signal.location.query", location)

\* C24: whenever classify_user_query extracted a non-empty location, the
\* parameter set build_qloo_parameters returns for the query carries it as
\* filter.location.query or signal.location.query, whatever the use case.
C24_LocationCarried ==
    (stage = "built" /\ ~built.raised /\ classified.location # "") =>
        CarriesLocation(built.params, classified.location)

\* C25: analyze_cultural_moment, called with a non-empty location, a valid
\* social context and a credential, sends a request that carries the location
\* as filter.location.query or signal.location.query.
C25_CulturalMomentSendsLocation ==
    (/\ pc # "idle"
     /\ call.tool = "analyze_cultural_moment"
     /\ call.location # ""
     /\ ~InvalidContext(call.social_context)
     /\ api_key # "") =>
        /\ Len(sent) = 1
        /\ CarriesLocation(sent[1].params, call.location)

\* C26: get_qloo_recommendations treats every upper/lower-case spelling of a
\* valid social context alike: the spelling is accepted and the requests sent
\* are those sent for the lower-case spelling, signal.demographics.age
\* included.
C26_ContextCaseInsensitive ==
    (/\ pc # "idle"
     /\ call.tool = "get_qloo_recommendations"
     /\ Lower(call.social_context) \in SocialContextValues) =>
        LET lower_case == get_qloo_recommendations_start(call.query,
                                                          Lower(call.social_context), api_key)
        IN /\ ~At(result.text, 1, "Invalid social context")
           /\ sent = IF lower_case.awaiting THEN <<lower_case.request>> ELSE <<>>

\* C27: whenever the extractor returns, filter.type is present in the
\* returned parameter set and equals the returned entity type.
C27_FilterTypeIsEntityType ==
    (Extracted /\ ~extracted.raised) =>
        /\ extracted.entity_type \in EntityTypes
        /\ ParamIs(extracted.params, "filter.type", extracted.entity_type)

C27_Witness ==
    /\ stage = "extracted"
    /\ text = "Popular retail chains"
    /\ extracted.entity_type = BOOK
    /\ ParamIs(extracted.params, "filter.type", BOOK)

\* The parameter set holds the tags the extractor returned under key k, and
\* lacks k when the extractor returned no tags.
TagsUnder(p, k) ==
    IF "filter.tags" \in DOMAIN extracted.params
    THEN ParamIs(p, k, extracted.params["filter.tags"])
    ELSE k \notin DOMAIN p

\* C28: no parameter set build_qloo_parameters returns holds both filter.tags
\* and signal.interests.tags: recommendation keeps the extracted tags under
\* filter.tags, demographic and heatmap carry them under signal.interests.tags
\* only, and location-based moves them there and sets signal.location.query
\* to the extracted location.
C28_TagsUnderOneKey ==
    (stage = "built" /\ ~built.raised) =>
        LET p == built.params
            u == classified.use_case
        IN /\ ~("filter.tags" \in DOMAIN p /\ "signal.interests.tags" \in DOMAIN p)
           /\ u = RECOMMENDATION_INSIGHTS => TagsUnder(p, "filter.tags")
           /\ u \in {DEMOGRAPHIC_INSIGHTS, HEATMAPS} => TagsUnder(p, "signal.interests.tags")
           /\ u = LOCATION_BASED_INSIGHTS =>
                  /\ TagsUnder(p, "signal.interests.tags")
                  /\ ParamIs(p, "signal.location.query", classified.location)

C28_Witness ==
    /\ stage = "built"
    /\ classified.use_case = LOCATION_BASED_INSIGHTS
    /\ "filter.tags" \in DOMAIN extracted.params
    /\ "filter.tags" \notin DOMAIN built.params
    /\ ParamIs(built.params, "signal.interests.tags", extracted.params["filter.tags"])

\* C29: the extractor never sets filter.popularity.min and
\* filter.popularity.max together, whatever popularity words the query holds.
C29_OnePopularityBound ==
    (Extracted /\ ~extracted.raised) =>
        ~(/\ "filter.popularity.min" \in DOMAIN extracted.params
          /\ "filter.popularity.max" \in DOMAIN extracted.params)

C29_Witness ==
    /\ stage = "extracted"
    /\ Contains(text_lower, "popular") /\ Contains(text_lower, "indie")
    /\ extracted.entity_type = ARTIST
    /\ ParamIs(extracted.params, "filter.popularity.min", "0.7")
    /\ "filter.popularity.max" \notin DOMAIN extracted.params

====
